---- MODULE Spec2Model ----
(***************************************************************************)
(* next-proxy: the handler returned by nextProxyHandler(options), as a     *)
(* state machine.  One invocation of the handler is a sequence of          *)
(* synchronous segments separated by its `await`s; each segment is one     *)
(* action.  The only state shared by invocations is the module-level       *)
(* rateStore.                                                              *)
(***************************************************************************)
EXTENDS Integers, Sequences, FiniteSets, TLC

VARIABLES
    options,    \* the NextProxyOptions the handler was created with
    inputs,     \* the handlers the process may create, the calls, bodies and upstream
                \* answers the environment may produce
    now,        \* Date.now()
    rateStore,  \* the module-level Map<string, InternalRateState>
    hist,       \* history: per key, when and under which windowMs its window was opened,
                \* how many calls passed in it, how many calls passed at each time
    inv         \* the invocations of handler(req): position, locals, response, history

vars == <<options, inputs, now, rateStore, hist, inv>>

----------------------------------------------------------------------------
(* Bounds of the model *)

\* the clock runs from 0 to MaxTime
MaxTime == 3
\* concurrent invocations in the runs that interleave invocations
NumInv == 2

----------------------------------------------------------------------------
(* JavaScript values.  Strings the code computes on are sequences of       *)
(* characters; strings it only compares or copies are TLA+ strings.        *)

UNDEF == [t |-> "undefined"]
JsNull == [t |-> "null"]
Str(cs) == [t |-> "string", s |-> cs]
\* an object, named by how it was made
Obj(id) == [t |-> "object", o |-> id]

sGET == <<"G", "E", "T">>
sHEAD == <<"H", "E", "A", "D">>
sPOST == <<"P", "O", "S", "T">>
sget == <<"g", "e", "t">>
sundefined == <<"u", "n", "d", "e", "f", "i", "n", "e", "d">>
snull == <<"n", "u", "l", "l">>
sBase == <<"h", "t", "t", "p", ":", "/", "/", "a">>
sAbs == <<"h", "t", "t", "p", ":", "/", "/", "b">>
sRel == <<"/", "t">>
sFtp == <<"f", "t", "p", ":", "/", "/", "b">>
sHTTPS == <<"H", "T", "T", "P", "S", ":", "/", "/", "b">>

\* String(v)
String(v) ==
    CASE v.t = "undefined" -> sundefined
      [] v.t = "null" -> snull
      [] v.t = "string" -> v.s
      [] OTHER -> <<"[", "o", "]">>

\* !v
Falsy(v) == v.t \in {"undefined", "null"} \/ (v.t = "string" /\ v.s = <<>>)

\* a ?? b
Coalesce(a, b) == IF a.t \in {"undefined", "null"} THEN b ELSE a

----------------------------------------------------------------------------
(* Options *)

NoPolicy == [kind |-> "none"]
PolicyString(s) == [kind |-> "string", s |-> s]
PolicyList(l) == [kind |-> "list", l |-> l]
\* a predicate (origin, req) => boolean, given by the pairs <<origin, req.method>> it accepts
PolicyFn(p) == [kind |-> "function", p |-> p]

NoRate == [configured |-> FALSE]
Rate(w, m, k) == [configured |-> TRUE, windowMs |-> w, max |-> m, key |-> k]

\* an optional string[]: undefined, or the list
NoList == [set |-> FALSE]
List(l) == [set |-> TRUE, l |-> l]

DefaultOptions ==
    [auth |-> FALSE, csrf |-> FALSE, validate |-> FALSE, rateLimit |-> FALSE,
     log |-> FALSE, monitor |-> FALSE, sanitize |-> FALSE,
     maskSensitiveData |-> FALSE, transformResponse |-> FALSE,
     transformRequest |-> "none", allowOrigins |-> NoPolicy,
     onCorsDenied |-> "none", baseUrl |-> UNDEF, inMemoryRate |-> NoRate,
     corsMethods |-> NoList, corsHeaders |-> NoList]

OriginApp == "https://app"
OriginEvil == "https://evil"
\* req.headers.get("origin") || "": an absent header reads as ""
Origins == {"", OriginApp, OriginEvil}

Guards == {"auth", "csrf", "rateLimit", "validate"}

\* an inbound call: deny is the set of guard predicates that return false for it,
\* throws the set of hooks that throw when they are called for it
Request(m, o, d, k) ==
    [method |-> m, origin |-> o, deny |-> d, xff |-> JsNull, remote |-> <<>>, clientKey |-> k,
     token |-> JsNull, throws |-> {}]

\* the call with an x-forwarded-for header (null: none) and a socket address (<<>>: none)
From(req, xff, remote) == [req EXCEPT !.xff = xff, !.remote = remote]

\* the call with an Authorization header
WithToken(req, token) == [req EXCEPT !.token = token]

\* the hooks called from the request event on; log is named by the event it is given
Hooks == {"log.request", "transformRequest", "sanitize", "maskSensitiveData",
          "transformResponse", "log.response", "monitor", "log.error"}

Failing(req, hooks) == [req EXCEPT !.throws = hooks]

\* what one invocation holds: its position, the locals of handler(), and its history
Fresh(req) ==
    [pc |-> "start", req |-> req, calls |-> <<>>, events |-> <<>>,
     resp |-> [status |-> 0],
     originOk |-> "none",
     rate |-> [dec |-> "none"],
     payload |-> [parsed |-> FALSE],
     method |-> UNDEF, endpoint |-> UNDEF, data |-> UNDEF,
     out |-> [issued |-> FALSE], started |-> 0, durationMs |-> 0,
     upstream |-> [status |-> 0], monitored |-> [called |-> FALSE]]

Idle == [Fresh(Request("POST", "", {}, <<>>)) EXCEPT !.pc = "idle"]

----------------------------------------------------------------------------
(* Responses and events *)

NoHeaders == [h \in {} |-> ""]
ACAO == "Access-Control-Allow-Origin"
ACAH == "Access-Control-Allow-Headers"
ACAM == "Access-Control-Allow-Methods"
ContentType == "Content-Type"

\* NextResponse.json(body, {status})
Json(body, status) == [status |-> status, body |-> body, headers |-> NoHeaders]

ErrorBody(msg) == [error |-> msg]

\* Array.prototype.join
RECURSIVE Join(_, _)
Join(l, sep) ==
    IF l = <<>> THEN ""
    ELSE IF Len(l) = 1 THEN l[1]
    ELSE l[1] \o sep \o Join(Tail(l), sep)

\* a ?? b for an optional list
OrDefault(list, default) == IF list.set THEN list.l ELSE default

CorsHeaders_defaults(origin) ==
    (ACAO :> origin) @@ (ACAH :> "Content-Type, Authorization") @@ (ACAM :> "POST,OPTIONS")

\* the three CORS headers the handler writes:
\* (options.corsHeaders ?? ["Content-Type", "Authorization"]).join(", ") and
\* (options.corsMethods ?? ["POST", "OPTIONS"]).join(",")
CorsHeaders(origin) ==
    (ACAO :> origin)
      @@ (ACAH :> Join(OrDefault(options.corsHeaders, <<"Content-Type", "Authorization">>), ", "))
      @@ (ACAM :> Join(OrDefault(options.corsMethods, <<"POST", "OPTIONS">>), ","))

sAnon == <<"a", "n", "o", "n">>

\* xf.split(",")[0]
FirstEntry(cs) ==
    LET commas == {k \in DOMAIN cs : cs[k] = ","}
        first == CHOOSE k \in commas : \A j \in commas : k <= j
    IN  IF commas = {} THEN cs ELSE SubSeq(cs, 1, first - 1)

\* String.prototype.trim
Trim(cs) ==
    LET ink == {k \in DOMAIN cs : cs[k] # " "}
        lo == CHOOSE k \in ink : \A j \in ink : k <= j
        hi == CHOOSE k \in ink : \A j \in ink : k >= j
    IN  IF ink = {} THEN <<>> ELSE SubSeq(cs, lo, hi)

getClientIp_remoteOnly(req) == IF req.remote # <<>> THEN req.remote ELSE sAnon

\* function getClientIp(req)
getClientIp(req) ==
    IF ~Falsy(req.xff) THEN Trim(FirstEntry(req.xff.s))
    ELSE IF req.remote # <<>> THEN req.remote
    ELSE sAnon

\* options.log({type: "error", level: "error", ..., status, error})
ErrorEvent(s, status, error) ==
    [type |-> "error", level |-> "error", ip |-> getClientIp(s.req),
     method |-> s.req.method, origin |-> s.req.origin, status |-> status,
     error |-> error]

\* options.log({type: "request", level: "info", ...})
RequestEvent(s) ==
    [type |-> "request", level |-> "info", ip |-> getClientIp(s.req),
     method |-> s.req.method, origin |-> s.req.origin]

Call(s, name) == [s EXCEPT !.calls = Append(@, name)]

\* if (options.log) options.log(ev); the event is recorded with the number of hook
\* calls the invocation had made before it
Emit(s, ev) ==
    IF options.log THEN [s EXCEPT !.events = Append(@, ev @@ [after |-> Len(s.calls)])]
    ELSE s

\* the log callback throws on this event
LogThrows(s, hook) == options.log /\ hook \in s.req.throws

\* return resp; the clock readings of the invocation are not kept past its return
Respond(s, resp) == [s EXCEPT !.pc = "done", !.resp = resp, !.started = 0, !.durationMs = 0]

\* a hook throws inside a segment: the segment stops here with the error
Raise(s, error) == [s EXCEPT !.pc = "raise", !.resp = [status |-> 0, thrown |-> error]]

\* an error leaves handler(req): the promise it returned rejects
Escapes(s, error) == [s EXCEPT !.pc = "threw", !.resp = [status |-> 0, thrown |-> error]]

----------------------------------------------------------------------------
(* The in-memory rate limiter *)

Put(f, k, v) == [x \in DOMAIN f \cup {k} |-> IF x = k THEN v ELSE f[x]]

\* one more call admitted at time t
Bump(f, t) == Put(f, t, IF t \in DOMAIN f THEN f[t] + 1 ELSE 1)

\* the history of admissions is kept for the times from..., the last windowMs
Recent(f, from) == [t \in {u \in DOMAIN f : u >= from} |-> f[t]]

\* const key = cfg.key ? cfg.key(req) : getClientIp(req)
RateKey(req, cfg) == IF cfg.key THEN req.clientKey ELSE getClientIp(req)

applyInMemoryRate_gt(req, cfg) ==
    LET key == RateKey(req, cfg)
    IN  IF key \notin DOMAIN rateStore \/ rateStore[key].expires < now
        THEN [allowed |-> TRUE,
              store |-> Put(rateStore, key, [count |-> 1, expires |-> now + cfg.windowMs])]
        ELSE IF rateStore[key].count > cfg.max
        THEN [allowed |-> FALSE, store |-> rateStore]
        ELSE [allowed |-> TRUE,
              store |-> [rateStore EXCEPT ![key].count = @ + 1]]

applyInMemoryRate_lost(req, cfg) ==
    LET key == RateKey(req, cfg)
    IN  IF key \notin DOMAIN rateStore \/ rateStore[key].expires < now
        THEN [allowed |-> TRUE,
              store |-> Put(rateStore, key, [count |-> 1, expires |-> now + cfg.windowMs])]
        ELSE IF rateStore[key].count >= cfg.max
        THEN [allowed |-> FALSE, store |-> rateStore]
        ELSE [allowed |-> TRUE, store |-> rateStore]

\* a sliding limiter: every admitted call restarts the window of its key
applyInMemoryRate_sliding(req, cfg) ==
    LET key == RateKey(req, cfg)
    IN  IF key \notin DOMAIN rateStore \/ rateStore[key].expires < now
        THEN [allowed |-> TRUE,
              store |-> Put(rateStore, key, [count |-> 1, expires |-> now + cfg.windowMs])]
        ELSE IF rateStore[key].count >= cfg.max
        THEN [allowed |-> FALSE, store |-> rateStore]
        ELSE [allowed |-> TRUE,
              store |-> [rateStore EXCEPT ![key].count = @ + 1,
                                          ![key].expires = now + cfg.windowMs]]

\* a limiter that denies every key while any key's live entry is at the limit
applyInMemoryRate_global(req, cfg) ==
    LET key == RateKey(req, cfg)
        full == \E k \in DOMAIN rateStore :
                    rateStore[k].expires >= now /\ rateStore[k].count >= cfg.max
    IN  IF key \notin DOMAIN rateStore \/ rateStore[key].expires < now
        THEN [allowed |-> TRUE,
              store |-> Put(rateStore, key, [count |-> 1, expires |-> now + cfg.windowMs])]
        ELSE IF full
        THEN [allowed |-> FALSE, store |-> rateStore]
        ELSE [allowed |-> TRUE,
              store |-> [rateStore EXCEPT ![key].count = @ + 1]]

\* a limiter that takes an entry that outlives its own windowMs for another handler's
\* and opens a window of its own
applyInMemoryRate_own(req, cfg) ==
    LET key == RateKey(req, cfg)
    IN  IF \/ key \notin DOMAIN rateStore \/ rateStore[key].expires < now
           \/ rateStore[key].expires > now + cfg.windowMs
        THEN [allowed |-> TRUE,
              store |-> Put(rateStore, key, [count |-> 1, expires |-> now + cfg.windowMs])]
        ELSE IF rateStore[key].count >= cfg.max
        THEN [allowed |-> FALSE, store |-> rateStore]
        ELSE [allowed |-> TRUE,
              store |-> [rateStore EXCEPT ![key].count = @ + 1]]

\* a limiter that drops the expired entries of the other keys when it opens a window
applyInMemoryRate_evicts(req, cfg) ==
    LET key == RateKey(req, cfg)
        live == [k \in {x \in DOMAIN rateStore : rateStore[x].expires >= now} |->
                    rateStore[k]]
    IN  IF key \notin DOMAIN rateStore \/ rateStore[key].expires < now
        THEN [allowed |-> TRUE,
              store |-> Put(live, key, [count |-> 1, expires |-> now + cfg.windowMs])]
        ELSE IF rateStore[key].count >= cfg.max
        THEN [allowed |-> FALSE, store |-> rateStore]
        ELSE [allowed |-> TRUE,
              store |-> [rateStore EXCEPT ![key].count = @ + 1]]

\* a limiter that opens a new window for a key that is at its limit
applyInMemoryRate_renews(req, cfg) ==
    LET key == RateKey(req, cfg)
    IN  IF \/ key \notin DOMAIN rateStore \/ rateStore[key].expires < now
           \/ rateStore[key].count >= cfg.max
        THEN [allowed |-> TRUE,
              store |-> Put(rateStore, key, [count |-> 1, expires |-> now + cfg.windowMs])]
        ELSE [allowed |-> TRUE,
              store |-> [rateStore EXCEPT ![key].count = @ + 1]]

\* a limiter whose denial restarts the window of the key
applyInMemoryRate_extends(req, cfg) ==
    LET key == RateKey(req, cfg)
    IN  IF key \notin DOMAIN rateStore \/ rateStore[key].expires < now
        THEN [allowed |-> TRUE,
              store |-> Put(rateStore, key, [count |-> 1, expires |-> now + cfg.windowMs])]
        ELSE IF rateStore[key].count >= cfg.max
        THEN [allowed |-> FALSE,
              store |-> [rateStore EXCEPT ![key].expires = now + cfg.windowMs]]
        ELSE [allowed |-> TRUE,
              store |-> [rateStore EXCEPT ![key].count = @ + 1]]

\* function applyInMemoryRate(req, cfg): the decision and the store it leaves
applyInMemoryRate(req, cfg) ==
    LET key == RateKey(req, cfg)
    IN  IF key \notin DOMAIN rateStore \/ rateStore[key].expires < now
        THEN [allowed |-> TRUE,
              store |-> Put(rateStore, key, [count |-> 1, expires |-> now + cfg.windowMs])]
        ELSE IF rateStore[key].count >= cfg.max
        THEN [allowed |-> FALSE, store |-> rateStore]
        ELSE [allowed |-> TRUE,
              store |-> [rateStore EXCEPT ![key].count = @ + 1]]

----------------------------------------------------------------------------
(* The origin policy *)

isOriginAllowed_noWildcard(origin, req) ==
    LET a == options.allowOrigins
    IN  IF a.kind = "none" \/ (a.kind = "string" /\ a.s = "") THEN TRUE
        ELSE IF a.kind = "string" THEN origin = a.s
        ELSE IF a.kind = "list" THEN origin \in a.l
        ELSE IF a.kind = "function" THEN <<origin, req.method>> \in a.p
        ELSE FALSE

\* function isOriginAllowed(origin, req); !options.allowOrigins holds of undefined and of ""
isOriginAllowed(origin, req) ==
    LET a == options.allowOrigins
    IN  IF a.kind = "none" \/ (a.kind = "string" /\ a.s = "") THEN TRUE
        ELSE IF a.kind = "string" THEN (IF a.s = "*" THEN TRUE ELSE origin = a.s)
        ELSE IF a.kind = "list" THEN (IF "*" \in a.l THEN TRUE ELSE origin \in a.l)
        ELSE IF a.kind = "function" THEN <<origin, req.method>> \in a.p
        ELSE FALSE

\* options.onCorsDenied?.(origin) || {error: "Origin not allowed"}
DeniedBody(origin) ==
    IF options.onCorsDenied = "custom" THEN [denied |-> origin]
    ELSE ErrorBody("Origin not allowed")

----------------------------------------------------------------------------
(* handler(req), first half: the guard chain.  Each operator is the code   *)
(* from one point of the handler up to its next `await` or `return`; it    *)
(* yields the invocation, the rate store and the history it leaves.        *)

R(s) == [s |-> s, store |-> rateStore, hist |-> hist]

\* lines 263-279: the request event, then `await req.json()`
FromRequestEvent(s) ==
    IF LogThrows(s, "log.request")
    THEN Escapes(Emit(s, RequestEvent(s)), "log failed")
    ELSE [Call(Emit(s, RequestEvent(s)), "req.json") EXCEPT !.pc = "json"]

\* lines 258-261, a validate guard that logs the request before it validates
FromValidate_logsFirst(s) ==
    IF options.validate
    THEN [Call(Emit(s, RequestEvent(s)), "validate") EXCEPT !.pc = "validate"]
    ELSE FromRequestEvent(s)

\* line 259: options.validate && !(await options.validate(req))
FromValidate(s) ==
    IF options.validate
    THEN [Call(s, "validate") EXCEPT !.pc = "validate"]
    ELSE FromRequestEvent(s)

\* line 260: the validate predicate has answered
AfterValidate(s) ==
    IF "validate" \in s.req.deny
    THEN Respond(s, Json(ErrorBody("Unauthorized"), 401))
    ELSE FromRequestEvent(s)

\* line 251: options.rateLimit && !(await options.rateLimit(req))
FromRateLimit(s) ==
    IF options.rateLimit
    THEN [Call(s, "rateLimit") EXCEPT !.pc = "rateLimit"]
    ELSE FromValidate(s)

\* an external rate guard that logs its denial as auth and csrf do
AfterRateLimit_audited(s) ==
    IF "rateLimit" \in s.req.deny
    THEN Respond(Emit(s, ErrorEvent(s, 429, "Rate limit exceeded")),
                 Json(ErrorBody("Rate limit exceeded"), 429))
    ELSE FromValidate(s)

\* lines 252-255: the external rate predicate has answered
AfterRateLimit(s) ==
    IF "rateLimit" \in s.req.deny
    THEN Respond(s, Json(ErrorBody("Rate limit exceeded"), 429))
    ELSE FromValidate(s)

\* an in-memory rate guard whose denial is left to the external predicate to confirm
FromInMemoryRate_asksOn(s) ==
    IF ~options.inMemoryRate.configured THEN R(FromRateLimit(s))
    ELSE
      LET cfg == options.inMemoryRate
          key == RateKey(s.req, cfg)
          r == applyInMemoryRate(s.req, cfg)
          had == key \in DOMAIN rateStore
          reopened == ~had \/ r.store[key].expires # rateStore[key].expires
          times == IF key \in DOMAIN hist
                   THEN Recent(hist[key].times, now - cfg.windowMs)
                   ELSE [t \in {} |-> 0]
          h == IF ~r.allowed THEN hist
               ELSE IF reopened
               THEN Put(hist, key, [opened |-> now, admitted |-> 1,
                                    windowMs |-> cfg.windowMs, times |-> Bump(times, now)])
               ELSE [hist EXCEPT ![key].admitted = @ + 1, ![key].times = Bump(times, now)]
          seen == [dec |-> IF r.allowed THEN "allow" ELSE "deny", key |-> key]
          s1 == [Call(s, "applyInMemoryRate") EXCEPT !.rate = seen]
      IN  [s |-> IF r.allowed \/ options.rateLimit THEN FromRateLimit(s1)
                 ELSE Respond(s1, Json(ErrorBody("Rate limit exceeded"), 429)),
           store |-> r.store, hist |-> h]

\* an in-memory rate guard that admits a call without counting it when guards follow
FromInMemoryRate_deferred(s) ==
    IF ~options.inMemoryRate.configured THEN R(FromRateLimit(s))
    ELSE
      LET cfg == options.inMemoryRate
          key == RateKey(s.req, cfg)
          r == applyInMemoryRate(s.req, cfg)
          had == key \in DOMAIN rateStore
          reopened == ~had \/ r.store[key].expires # rateStore[key].expires
          times == IF key \in DOMAIN hist
                   THEN Recent(hist[key].times, now - cfg.windowMs)
                   ELSE [t \in {} |-> 0]
          h == IF ~r.allowed THEN hist
               ELSE IF reopened
               THEN Put(hist, key, [opened |-> now, admitted |-> 1,
                                    windowMs |-> cfg.windowMs, times |-> Bump(times, now)])
               ELSE [hist EXCEPT ![key].admitted = @ + 1, ![key].times = Bump(times, now)]
          seen == [dec |-> IF r.allowed THEN "allow" ELSE "deny", key |-> key]
          s1 == [Call(s, "applyInMemoryRate") EXCEPT !.rate = seen]
      IN  [s |-> IF r.allowed THEN FromRateLimit(s1)
                 ELSE Respond(s1, Json(ErrorBody("Rate limit exceeded"), 429)),
           store |-> IF options.validate THEN rateStore ELSE r.store,
           hist |-> IF options.validate THEN hist ELSE h]

\* lines 242-248: the in-memory rate guard
FromInMemoryRate(s) ==
    IF ~options.inMemoryRate.configured THEN R(FromRateLimit(s))
    ELSE
      LET cfg == options.inMemoryRate
          key == RateKey(s.req, cfg)
          r == applyInMemoryRate(s.req, cfg)
          had == key \in DOMAIN rateStore
          reopened == ~had \/ r.store[key].expires # rateStore[key].expires
          times == IF key \in DOMAIN hist
                   THEN Recent(hist[key].times, now - cfg.windowMs)
                   ELSE [t \in {} |-> 0]
          h == IF ~r.allowed THEN hist
               ELSE IF reopened
               THEN Put(hist, key, [opened |-> now, admitted |-> 1,
                                    windowMs |-> cfg.windowMs, times |-> Bump(times, now)])
               ELSE [hist EXCEPT ![key].admitted = @ + 1, ![key].times = Bump(times, now)]
          seen == [dec |-> IF r.allowed THEN "allow" ELSE "deny", key |-> key]
          s1 == [Call(s, "applyInMemoryRate") EXCEPT !.rate = seen]
      IN  [s |-> IF r.allowed THEN FromRateLimit(s1)
                 ELSE Respond(s1, Json(ErrorBody("Rate limit exceeded"), 429)),
           store |-> r.store, hist |-> h]

\* const denied = options.onCorsDenied?.(origin) || {...}
CallDenied(s) == IF options.onCorsDenied = "none" THEN s ELSE Call(s, "onCorsDenied")

\* the origin decision of this invocation, recorded
Decide(s) ==
    [Call(s, "isOriginAllowed") EXCEPT
        !.originOk = IF isOriginAllowed(s.req.origin, s.req) THEN "allow" ELSE "deny"]

\* an origin guard that answers its denial with the CORS headers of a preflight
FromOrigin_cors(s) ==
    LET s1 == Decide(s)
    IN  IF s1.originOk = "deny"
        THEN R(Respond(CallDenied(s1),
                [Json(DeniedBody(s.req.origin), 403) EXCEPT
                    !.headers = CorsHeaders(s.req.origin)]))
        ELSE FromInMemoryRate(s1)

\* lines 235-240: the origin guard of a non-preflight call
FromOrigin(s) ==
    LET s1 == Decide(s)
    IN  IF s1.originOk = "deny"
        THEN R(Respond(CallDenied(s1), Json(DeniedBody(s.req.origin), 403)))
        ELSE FromInMemoryRate(s1)

\* a handler without the preflight branch
FromPreflight_noBranch(s) == FromOrigin(s)

\* lines 201-233: the CORS preflight branch
FromPreflight(s) ==
    IF s.req.method = "OPTIONS"
    THEN LET s1 == Decide(s)
         IN  IF s1.originOk = "deny"
             THEN R(Respond(CallDenied(s1),
                     [status |-> 403, body |-> DeniedBody(s.req.origin),
                      headers |-> (ContentType :> "application/json")
                                    @@ CorsHeaders(s.req.origin)]))
             ELSE R(Respond(s1, [status |-> 204, body |-> JsNull,
                                 headers |-> CorsHeaders(s.req.origin)]))
    ELSE FromOrigin(s)

\* a handler that never asks the csrf predicate
FromCsrf_skipped(s) == FromPreflight(s)

\* line 180: options.csrf && !(await options.csrf(req))
FromCsrf(s) ==
    IF options.csrf
    THEN R([Call(s, "csrf") EXCEPT !.pc = "csrf"])
    ELSE FromPreflight(s)

\* lines 181-198: the csrf predicate has answered
AfterCsrf(s) ==
    IF "csrf" \in s.req.deny
    THEN IF LogThrows(s, "log.error")
         THEN R(Escapes(Emit(s, ErrorEvent(s, 403, "Forbidden (csrf/xss)")), "log failed"))
         ELSE R(Respond(Emit(s, ErrorEvent(s, 403, "Forbidden (csrf/xss)")),
                        Json(ErrorBody("Forbidden (csrf/xss)"), 403)))
    ELSE FromPreflight(s)

\* lines 155-158: const origin = ...; options.auth && !(await options.auth(req))
FromAuth(s) ==
    IF options.auth
    THEN R([Call(s, "auth") EXCEPT !.pc = "auth"])
    ELSE FromCsrf(s)

\* lines 159-176: the auth predicate has answered
AfterAuth(s) ==
    IF "auth" \in s.req.deny
    THEN IF LogThrows(s, "log.error")
         THEN R(Escapes(Emit(s, ErrorEvent(s, 401, "Unauthorized (auth)")), "log failed"))
         ELSE R(Respond(Emit(s, ErrorEvent(s, 401, "Unauthorized (auth)")),
                        Json(ErrorBody("Unauthorized (auth)"), 401)))
    ELSE FromCsrf(s)

----------------------------------------------------------------------------
(* handler(req), second half: parse, transform, forward, shape *)

LowerCase == <<"a", "b", "c", "d", "e", "f", "g", "h", "i", "j", "k", "l", "m",
               "n", "o", "p", "q", "r", "s", "t", "u", "v", "w", "x", "y", "z">>
UpperCase == <<"A", "B", "C", "D", "E", "F", "G", "H", "I", "J", "K", "L", "M",
               "N", "O", "P", "Q", "R", "S", "T", "U", "V", "W", "X", "Y", "Z">>

UpperChar(c) ==
    IF \E k \in DOMAIN LowerCase : LowerCase[k] = c
    THEN UpperCase[CHOOSE k \in DOMAIN LowerCase : LowerCase[k] = c]
    ELSE c

LowerChar(c) ==
    IF \E k \in DOMAIN UpperCase : UpperCase[k] = c
    THEN LowerCase[CHOOSE k \in DOMAIN UpperCase : UpperCase[k] = c]
    ELSE c

\* String.prototype.toUpperCase
toUpperCase(cs) == [k \in DOMAIN cs |-> UpperChar(cs[k])]

StartsWith(cs, prefix) ==
    Len(cs) >= Len(prefix) /\ SubSeq(cs, 1, Len(prefix)) = prefix

IsAbsoluteUrl_any(cs) == TRUE

\* /^[a-z]+:\/\//i.test(e): any scheme
IsAbsoluteUrl_anyScheme(cs) ==
    \E k \in 1..(Len(cs) - 3) :
        /\ SubSeq(cs, k + 1, k + 3) = <<":", "/", "/">>
        /\ \A j \in 1..k : \E l \in DOMAIN LowerCase : LowerChar(cs[j]) = LowerCase[l]

\* /^https?:\/\//i.test(e)
IsAbsoluteUrl(cs) ==
    LET l == [k \in DOMAIN cs |-> LowerChar(cs[k])]
    IN  \/ StartsWith(l, <<"h", "t", "t", "p", ":", "/", "/">>)
        \/ StartsWith(l, <<"h", "t", "t", "p", "s", ":", "/", "/">>)

\* s.replace(/\/$/, "")
StripTrailingSlash(cs) ==
    IF Len(cs) > 0 /\ cs[Len(cs)] = "/" THEN SubSeq(cs, 1, Len(cs) - 1) ELSE cs

\* s.replace(/^\//, "")
StripLeadingSlash(cs) ==
    IF Len(cs) > 0 /\ cs[1] = "/" THEN SubSeq(cs, 2, Len(cs)) ELSE cs

\* const WITHOUT_BODY = ["GET", "HEAD"]
WITHOUT_BODY == {sGET, sHEAD}

sBearer == <<"B", "e", "a", "r", "e", "r">>

\* how a hook's result is named: by the hook and what it was given
Made(hook, v) == Obj(<<hook>> \o (IF v.t = "object" THEN v.o ELSE <<v.t>>))

\* options.transformRequest(payload): the hooks of the model, by the fields they return
TransformRequestHook(kind, payload) ==
    CASE kind = "void" -> [method |-> UNDEF, endpoint |-> UNDEF, data |-> UNDEF]
      [] kind = "method" -> [method |-> Str(sPOST), endpoint |-> UNDEF, data |-> UNDEF]
      [] kind = "endpoint" -> [method |-> UNDEF, endpoint |-> Str(sAbs), data |-> UNDEF]
      [] kind = "data" ->
            [method |-> UNDEF, endpoint |-> UNDEF, data |-> Made("transformRequest", payload.data)]
      [] OTHER -> [method |-> Str(sPOST), endpoint |-> Str(sAbs),
                   data |-> Made("transformRequest", payload.data)]

\* the payload of a body that does not parse: {}
EmptyPayload == [ok |-> TRUE, method |-> UNDEF, endpoint |-> UNDEF, data |-> UNDEF]

\* lines 283-298: let {method, endpoint, data} = payload; the transformRequest hook
Transformed(s, payload) ==
    LET m0 == payload.method
        e0 == payload.endpoint
        d0 == payload.data
        tr == TransformRequestHook(options.transformRequest,
                  [method |-> Str(String(m0)), endpoint |-> Str(String(e0)),
                   data |-> IF d0.t = "object" THEN d0 ELSE Obj(<<"{}">>)])
        seen == [parsed |-> TRUE, method |-> m0, endpoint |-> e0, data |-> d0]
        s0 == [s EXCEPT !.payload = seen, !.method = m0, !.endpoint = e0, !.data = d0]
    IN  IF options.transformRequest = "none" THEN s0
        ELSE IF "transformRequest" \in s.req.throws
        THEN Raise(Call(s0, "transformRequest"), "transformRequest failed")
        ELSE [Call(s0, "transformRequest") EXCEPT
                !.method = Coalesce(tr.method, Str(String(m0))),
                !.endpoint = Coalesce(tr.endpoint, Str(String(e0))),
                !.data = Coalesce(tr.data, d0)]

\* lines 315-318: baseUrl.replace(/\/$/, "") + "/" + String(endpoint).replace(/^\//, "")
Resolve(baseUrl, endpoint) ==
    StripTrailingSlash(baseUrl) \o <<"/">> \o StripLeadingSlash(endpoint)

\* maskSensitiveData, then sanitize
Cleaned_maskFirst(s) ==
    LET s1 == IF ~options.maskSensitiveData THEN s
              ELSE IF "maskSensitiveData" \in s.req.throws
              THEN Raise(Call(s, "maskSensitiveData"), "maskSensitiveData failed")
              ELSE [Call(s, "maskSensitiveData") EXCEPT
                      !.data = Made("maskSensitiveData", s.data)]
    IN  IF s1.pc = "raise" \/ ~options.sanitize THEN s1
        ELSE IF "sanitize" \in s.req.throws
        THEN Raise(Call(s1, "sanitize"), "sanitize failed")
        ELSE [Call(s1, "sanitize") EXCEPT !.data = Made("sanitize", s1.data)]

\* lines 321-328: sanitize, then maskSensitiveData
Cleaned(s) ==
    LET s1 == IF ~options.sanitize THEN s
              ELSE IF "sanitize" \in s.req.throws
              THEN Raise(Call(s, "sanitize"), "sanitize failed")
              ELSE [Call(s, "sanitize") EXCEPT !.data = Made("sanitize", s.data)]
    IN  IF s1.pc = "raise" \/ ~options.maskSensitiveData THEN s1
        ELSE IF "maskSensitiveData" \in s.req.throws
        THEN Raise(Call(s1, "maskSensitiveData"), "maskSensitiveData failed")
        ELSE [Call(s1, "maskSensitiveData") EXCEPT !.data = Made("maskSensitiveData", s1.data)]

\* an outbound call whose body is decided on the method as it was given
Outbound_rawMethod(s) ==
    LET upperMethod == toUpperCase(String(s.method))
        token == s.req.token
        auth == IF Falsy(token) THEN NoHeaders
                ELSE ("Authorization" :>
                        IF StartsWith(token.s, sBearer) THEN token.s
                        ELSE sBearer \o <<" ">> \o token.s)
        hasBody == String(s.method) \notin WITHOUT_BODY
        ctype == IF hasBody THEN (ContentType :> <<"application/json">>) ELSE NoHeaders
    IN  [issued |-> TRUE, url |-> s.endpoint, method |-> upperMethod,
         headers |-> auth @@ ctype,
         body |-> IF hasBody THEN Coalesce(s.data, Obj(<<"{}">>)) ELSE UNDEF]

\* lines 330-345: the outbound call
Outbound(s) ==
    LET upperMethod == toUpperCase(String(s.method))
        token == s.req.token
        auth == IF Falsy(token) THEN NoHeaders
                ELSE ("Authorization" :>
                        IF StartsWith(token.s, sBearer) THEN token.s
                        ELSE sBearer \o <<" ">> \o token.s)
        hasBody == upperMethod \notin WITHOUT_BODY
        ctype == IF hasBody THEN (ContentType :> <<"application/json">>) ELSE NoHeaders
    IN  [issued |-> TRUE, url |-> s.endpoint, method |-> upperMethod,
         headers |-> auth @@ ctype,
         body |-> IF hasBody THEN Coalesce(s.data, Obj(<<"{}">>)) ELSE UNDEF]

\* lines 406-425: catch (error); the error event, then the 500
Caught(s, error) ==
    LET s1 == Emit(Call(s, "catch"), ErrorEvent(s, 500, error))
    IN  IF LogThrows(s, "log.error") THEN Escapes(s1, "log failed")
        ELSE Respond(s1, Json(ErrorBody(error), 500))

\* lines 279-345: the body has been read (or has failed to parse); up to `await fetch`
AfterJson(s, body) ==
    LET s1 == Transformed(s, IF body.ok THEN body ELSE EmptyPayload)
    IN  IF s1.pc = "raise" THEN Caught(s1, s1.resp.thrown)
        ELSE IF Falsy(s1.method) \/ Falsy(s1.endpoint)
        THEN Respond(s1, Json(ErrorBody("Missing method or endpoint"), 400))
        ELSE IF ~IsAbsoluteUrl(String(s1.endpoint)) /\ Falsy(options.baseUrl)
        THEN Respond(s1, Json(ErrorBody("Relative endpoint without baseUrl"), 400))
        ELSE LET s2 == IF IsAbsoluteUrl(String(s1.endpoint)) THEN s1
                       ELSE [s1 EXCEPT !.endpoint =
                               Str(Resolve(options.baseUrl.s, String(s1.endpoint)))]
                 s3 == Cleaned(s2)
             IN  IF s3.pc = "raise" THEN Caught(s3, s3.resp.thrown)
                 ELSE [Call(s3, "fetch") EXCEPT
                         !.pc = "fetch", !.out = Outbound(s3), !.started = now]

\* lines 345-351: fetch has answered; const durationMs = ...; `await upstream.json()`
\* (started is not read again)
AfterFetch(s, up) ==
    [Call(s, "upstream.json") EXCEPT
        !.pc = "decode", !.upstream = up, !.durationMs = now - s.started, !.started = 0]

\* lines 349-362: the body as JSON, else as text, else the binary descriptor
Parsed(up) ==
    CASE up.kind = "json" -> up.body
      [] up.kind = "text" -> Str(<<"t", "x", "t">>)
      [] OTHER -> Obj(<<"Unprocessable response (binary)">>)

\* options.transformResponse(response): the hook of the model keeps the first field of
\* the body and drops the others
TransformResponseHook(response) ==
    Made("transformResponse", Obj(SubSeq(response.o, 1, 1)))

Shaped_identity(response) == response

\* lines 365-370: transformResponse, for an object that is not null
Shaped(response) ==
    IF options.transformResponse /\ response.t = "object"
    THEN TransformResponseHook(response)
    ELSE response

ResponseEvent_unshaped(s, response) ==
    [type |-> "response", level |-> "info", ip |-> getClientIp(s.req),
     method |-> String(s.method), origin |-> s.req.origin,
     endpoint |-> String(s.endpoint), status |-> s.upstream.status,
     durationMs |-> s.durationMs, payload |-> Parsed(s.upstream)]

\* options.log({type: "response", ...})
ResponseEvent(s, response) ==
    [type |-> "response", level |-> "info", ip |-> getClientIp(s.req),
     method |-> String(s.method), origin |-> s.req.origin,
     endpoint |-> String(s.endpoint), status |-> s.upstream.status,
     durationMs |-> s.durationMs, payload |-> response]

\* upstream.ok
Ok(up) == up.status >= 200 /\ up.status <= 299

\* lines 391-405: the return; headers: options.allowOrigins ? {...} : undefined
Returned(s, response) ==
    LET a == options.allowOrigins
    IN  IF ~Ok(s.upstream)
        THEN Respond(s, Json(response, s.upstream.status))
        ELSE Respond(s, [status |-> 200, body |-> response,
                         headers |-> IF a.kind = "none" \/ (a.kind = "string" /\ a.s = "")
                                     THEN NoHeaders
                                     ELSE CorsHeaders(s.req.origin)])

\* a handler that hands the monitor the body as it was parsed
AfterDecode_rawToMonitor(s) ==
    LET parsed == Parsed(s.upstream)
        response == Shaped(parsed)
        shapes == options.transformResponse /\ parsed.t = "object"
        s1 == IF shapes THEN Call(s, "transformResponse") ELSE s
        s2 == Emit(s1, ResponseEvent(s1, response))
        s3 == IF options.monitor
              THEN [Call(s2, "monitor") EXCEPT
                      !.monitored = [called |-> TRUE, req |-> s.req, response |-> parsed]]
              ELSE s2
    IN  IF shapes /\ "transformResponse" \in s.req.throws
        THEN Caught(s1, "transformResponse failed")
        ELSE IF LogThrows(s, "log.response") THEN Caught(s2, "log failed")
        ELSE IF options.monitor /\ "monitor" \in s.req.throws
        THEN Caught(s3, "monitor failed")
        ELSE Returned(s3, response)

\* lines 364-405: the upstream body has been decoded; shape, log, monitor, return
AfterDecode(s) ==
    LET parsed == Parsed(s.upstream)
        response == Shaped(parsed)
        shapes == options.transformResponse /\ parsed.t = "object"
        s1 == IF shapes THEN Call(s, "transformResponse") ELSE s
        s2 == Emit(s1, ResponseEvent(s1, response))
        s3 == IF options.monitor
              THEN [Call(s2, "monitor") EXCEPT
                      !.monitored = [called |-> TRUE, req |-> s.req, response |-> response]]
              ELSE s2
    IN  IF shapes /\ "transformResponse" \in s.req.throws
        THEN Caught(s1, "transformResponse failed")
        ELSE IF LogThrows(s, "log.response") THEN Caught(s2, "log failed")
        ELSE IF options.monitor /\ "monitor" \in s.req.throws
        THEN Caught(s3, "monitor failed")
        ELSE Returned(s3, response)

\* lines 351-354: upstream.json() has settled; if it rejected, `await upstream.text()`
AfterUpstreamJson(s) ==
    IF s.upstream.kind = "json" THEN AfterDecode(s)
    ELSE [Call(s, "upstream.text") EXCEPT !.pc = "text"]

\* lines 354-356: upstream.text() has settled; if it rejected, `await upstream.arrayBuffer()`
AfterUpstreamText(s) ==
    IF s.upstream.kind = "text" THEN AfterDecode(s)
    ELSE [Call(s, "upstream.arrayBuffer") EXCEPT !.pc = "arrayBuffer"]

\* lines 356-361: upstream.arrayBuffer() has settled; its rejection is not caught here
AfterUpstreamArrayBuffer(s) ==
    IF s.upstream.kind = "binary" THEN AfterDecode(s)
    ELSE Caught(s, "body unusable")

----------------------------------------------------------------------------
(* Actions *)

Apply(i, r) ==
    /\ inv' = [inv EXCEPT ![i] = r.s]
    /\ rateStore' = r.store
    /\ hist' = r.hist
    /\ UNCHANGED <<options, inputs, now>>

\* handler(req) is called; a new invocation is given the first slot that is free
Invoke(i, req) ==
    /\ inv[i].pc \in {"idle", "done", "threw"}
    /\ \A j \in DOMAIN inv : j < i => inv[j].pc \notin {"idle", "done", "threw"}
    /\ Apply(i, FromAuth(Fresh(req)))

\* await options.auth(req) resumes
AuthReturns(i) ==
    /\ inv[i].pc = "auth"
    /\ Apply(i, AfterAuth(inv[i]))

\* await options.csrf(req) resumes
CsrfReturns(i) ==
    /\ inv[i].pc = "csrf"
    /\ Apply(i, AfterCsrf(inv[i]))

\* await options.rateLimit(req) resumes
RateLimitReturns(i) ==
    /\ inv[i].pc = "rateLimit"
    /\ Apply(i, R(AfterRateLimit(inv[i])))

\* await options.validate(req) resumes
ValidateReturns(i) ==
    /\ inv[i].pc = "validate"
    /\ Apply(i, R(AfterValidate(inv[i])))

\* await req.json() resumes, with a payload or with a parse failure
BodyRead(i, body) ==
    /\ inv[i].pc = "json"
    /\ Apply(i, R(AfterJson(inv[i], body)))

\* await fetch(endpoint, fetchOptions) resumes with a response
FetchResolves(i, up) ==
    /\ inv[i].pc = "fetch"
    /\ Apply(i, R(AfterFetch(inv[i], up)))

\* await fetch(endpoint, fetchOptions) rejects
FetchRejects(i) ==
    /\ inv[i].pc = "fetch"
    /\ Apply(i, R(Caught(inv[i], "fetch failed")))

\* await upstream.json() resumes or rejects
BodyDecoded(i) ==
    /\ inv[i].pc = "decode"
    /\ Apply(i, R(AfterUpstreamJson(inv[i])))

\* await upstream.text() resumes or rejects
TextDecoded(i) ==
    /\ inv[i].pc = "text"
    /\ Apply(i, R(AfterUpstreamText(inv[i])))

\* await upstream.arrayBuffer() resumes or rejects
BufferRead(i) ==
    /\ inv[i].pc = "arrayBuffer"
    /\ Apply(i, R(AfterUpstreamArrayBuffer(inv[i])))

\* nextProxyHandler(o) is called while no call is in flight: the calls that follow are
\* made to the handler it returns, the invocations of the earlier handler are let go
nextProxyHandler(o) ==
    /\ o # options
    /\ \A i \in DOMAIN inv : inv[i].pc \in {"idle", "done", "threw"}
    /\ options' = o
    /\ inv' = [i \in DOMAIN inv |-> Idle]
    /\ UNCHANGED <<inputs, now, rateStore, hist>>

\* time passes
Tick ==
    /\ now < MaxTime
    /\ now' = now + 1
    /\ hist' = [k \in DOMAIN hist |->
                  [hist[k] EXCEPT !.times = Recent(@, now' - hist[k].windowMs)]]
    /\ UNCHANGED <<options, inputs, rateStore, inv>>

Next ==
    \/ \E i \in DOMAIN inv, req \in inputs.requests : Invoke(i, req)
    \/ \E i \in DOMAIN inv : AuthReturns(i)
    \/ \E i \in DOMAIN inv : CsrfReturns(i)
    \/ \E i \in DOMAIN inv : RateLimitReturns(i)
    \/ \E i \in DOMAIN inv : ValidateReturns(i)
    \/ \E i \in DOMAIN inv, body \in inputs.bodies : BodyRead(i, body)
    \/ \E i \in DOMAIN inv, up \in inputs.upstreams : FetchResolves(i, up)
    \/ \E i \in DOMAIN inv : FetchRejects(i)
    \/ \E i \in DOMAIN inv : BodyDecoded(i)
    \/ \E i \in DOMAIN inv : TextDecoded(i)
    \/ \E i \in DOMAIN inv : BufferRead(i)
    \/ \E o \in inputs.handlers : nextProxyHandler(o)
    \/ Tick

----------------------------------------------------------------------------
(* Initial states: the module has just been loaded (empty rateStore), the  *)
(* handler has been created with some options, no call is in flight.       *)

GoodBody == [ok |-> TRUE, method |-> Str(sGET), endpoint |-> Str(sRel), data |-> UNDEF]
NoBody == [ok |-> FALSE]
\* an upstream answer: its status and how far down json / text / arrayBuffer its body
\* can be read ("broken": none of the three resolves)
Upstream(status, kind) == [status |-> status, kind |-> kind, body |-> Obj(<<"up">>)]
UpOk == Upstream(200, "json")
UpNotFound == Upstream(404, "json")
UpBroken == Upstream(200, "broken")
\* an upstream whose JSON body is null
UpNull == [Upstream(200, "json") EXCEPT !.body = JsNull]
\* an upstream whose JSON body has a second field
UpWide == [Upstream(200, "json") EXCEPT !.body = Obj(<<"up", "more">>)]

Loaded(n) ==
    /\ now = 0
    /\ rateStore = [k \in {} |-> 0]
    /\ hist = [k \in {} |-> 0]
    /\ inv = [i \in 1..n |-> Idle]

Configured(o) == {g \in Guards : o[g]}

\* the handlers of S whose in-memory rate configuration is that of o
SameRate(S, o) == {h \in S : h.inMemoryRate = o.inMemoryRate}

\* guard chains: which guards are configured, what each answers for a call
GuardOptions ==
    {[DefaultOptions EXCEPT !.auth = g[1], !.csrf = g[1], !.rateLimit = g[2],
                            !.validate = g[2], !.log = l, !.allowOrigins = a,
                            !.inMemoryRate = r, !.baseUrl = Str(sBase)] :
        g \in BOOLEAN \X BOOLEAN, l \in BOOLEAN,
        a \in {NoPolicy, PolicyString("*"), PolicyString(OriginApp)},
        r \in {NoRate, Rate(1, 1, FALSE)}}

InitGuards ==
    /\ options \in GuardOptions
    /\ inputs = [handlers |-> {h \in SameRate(GuardOptions, options) :
                                 /\ Configured(h) = Configured(options)
                                 /\ h.allowOrigins = options.allowOrigins},
                 requests |-> {Request(m, o, d, <<>>) :
                                 m \in {"POST", "OPTIONS"}, o \in Origins,
                                 d \in SUBSET Configured(options)},
                 bodies |-> {GoodBody, NoBody},
                 upstreams |-> {UpOk, UpNotFound, UpBroken}]
    /\ Loaded(1)

Spec == InitGuards /\ [][Next]_vars

\* the rate limiter under interleaved invocations: the handler suspends before the
\* rate guard (auth, csrf) and after it (rateLimit, validate, req.json, fetch, the
\* reading of the upstream body)
RateOptions ==
    {[DefaultOptions EXCEPT !.auth = TRUE, !.log = l, !.baseUrl = Str(sBase),
                            !.inMemoryRate = Rate(w, 1, TRUE)] :
        w \in {1, 2}, l \in BOOLEAN}
    \cup {[DefaultOptions EXCEPT !.auth = TRUE, !.csrf = TRUE, !.rateLimit = TRUE,
                                 !.validate = TRUE, !.baseUrl = Str(sBase),
                                 !.inMemoryRate = Rate(1, 2, TRUE)]}

InitRate ==
    /\ options \in RateOptions
    /\ inputs = [handlers |-> SameRate(RateOptions, options),
                 requests |-> {Request("POST", "", {}, k) : k \in {<<"k", "1">>}},
                 bodies |-> {GoodBody},
                 upstreams |-> {UpOk, UpBroken}]
    /\ Loaded(NumInv)

SpecRate == InitRate /\ [][Next]_vars

\* every shape of origin policy
Policies ==
    {NoPolicy, PolicyString(""), PolicyString("*"), PolicyString(OriginApp),
     PolicyList({}), PolicyList({OriginApp}), PolicyList({"*"}), PolicyList({"*", OriginApp}),
     PolicyFn({}), PolicyFn({<<OriginApp, "POST">>, <<OriginApp, "OPTIONS">>}),
     PolicyFn({<<OriginEvil, "OPTIONS">>})}

\* the CORS lists of the handler: the defaults, lists of its own, empty lists
CorsLists ==
    {<<NoList, NoList>>, <<List(<<"GET", "POST">>), List(<<"X-Custom">>)>>,
     <<List(<<>>), List(<<"A", "B", "C">>)>>}

OriginOptions ==
    {[DefaultOptions EXCEPT !.allowOrigins = a, !.onCorsDenied = c, !.auth = x,
                            !.csrf = x, !.rateLimit = x, !.validate = x,
                            !.corsMethods = l[1], !.corsHeaders = l[2],
                            !.inMemoryRate = IF x THEN Rate(1, 1, FALSE) ELSE NoRate,
                            !.baseUrl = Str(sBase)] :
        a \in Policies, c \in {"none", "custom", "falsy"}, x \in BOOLEAN,
        l \in CorsLists}

InitOrigin ==
    /\ options \in OriginOptions
    /\ inputs = [handlers |-> {h \in OriginOptions :
                                 /\ h.allowOrigins = options.allowOrigins
                                 /\ h.onCorsDenied = options.onCorsDenied
                                 /\ h.corsMethods = options.corsMethods},
                 requests |-> {Request(m, o, {}, <<>>) :
                                 m \in {"POST", "OPTIONS"}, o \in Origins},
                 bodies |-> {GoodBody, NoBody},
                 upstreams |-> {UpOk, UpNotFound, UpBroken}]
    /\ Loaded(1)

SpecOrigin == InitOrigin /\ [][Next]_vars

\* every kind of transformRequest hook against every kind of inbound body
TransformOptions ==
    {[DefaultOptions EXCEPT !.transformRequest = k, !.baseUrl = b, !.auth = x,
                            !.csrf = x, !.rateLimit = x, !.validate = x,
                            !.sanitize = x, !.maskSensitiveData = y] :
        k \in {"none", "void", "method", "endpoint", "data", "all"},
        b \in {UNDEF, Str(sBase), Str(sBase \o <<"/">>), Str(sBase \o <<"/", "/">>)},
        x \in BOOLEAN, y \in BOOLEAN}

InitTransform ==
    /\ options \in TransformOptions
    /\ inputs = [handlers |-> {h \in TransformOptions :
                                 /\ h.transformRequest = options.transformRequest
                                 /\ h.baseUrl = options.baseUrl},
                 requests |-> {Request("POST", OriginApp, {}, <<>>)},
                 bodies |-> {[ok |-> TRUE, method |-> m, endpoint |-> e, data |-> d] :
                                m \in {UNDEF, Str(<<>>), Str(sget), JsNull,
                                       Str(<<"H", "e", "a", "d">>)},
                                e \in {UNDEF, Str(<<>>), Str(Tail(sRel)), Str(sRel),
                                       Str(<<"/">> \o sRel), Str(sAbs), Str(sFtp),
                                       Str(sHTTPS)},
                                d \in {UNDEF, Obj(<<"d">>)}} \cup {NoBody},
                 upstreams |-> {UpOk, UpNotFound, UpBroken}]
    /\ Loaded(1)

SpecTransform == InitTransform /\ [][Next]_vars

\* the forwarding of a call and the shaping of its answer: every kind of upstream answer,
\* handlers with and without hooks, calls for which one of the hooks throws
ResponseOptions ==
    {[DefaultOptions EXCEPT !.auth = h, !.csrf = h, !.rateLimit = h, !.validate = h,
                            !.log = h, !.monitor = h, !.sanitize = h,
                            !.maskSensitiveData = h,
                            !.transformRequest = IF h THEN "data" ELSE "none",
                            !.transformResponse = t, !.allowOrigins = a,
                            !.baseUrl = Str(sBase)] :
        h \in BOOLEAN, t \in BOOLEAN,
        a \in {NoPolicy, PolicyString(""), PolicyString("*"), PolicyList({OriginApp}),
               PolicyFn({<<OriginApp, "POST">>})}}

\* no hook throws, one hook throws, or one hook and the log of the error event throw
Failures(o) ==
    IF ~o.log THEN {{}, {"transformResponse"}}
    ELSE {{}} \cup {{k} : k \in Hooks} \cup {{k, "log.error"} : k \in Hooks}

\* the Authorization header of the inbound call: none, empty, a bare token, a Bearer
\* value, a value that merely begins with the letters "Bearer"
Tokens ==
    {JsNull, Str(<<>>), Str(<<"t">>), Str(sBearer \o <<" ", "t">>), Str(sBearer \o <<"X">>)}

InitResponse ==
    /\ options \in ResponseOptions
    /\ inputs = [handlers |-> {h \in ResponseOptions :
                                 /\ h.log = options.log
                                 /\ h.allowOrigins = options.allowOrigins},
                 requests |-> {Failing(Request("POST", OriginApp, {}, <<>>), f) :
                                 f \in Failures(options)}
                              \cup {WithToken(Request("POST", OriginApp, {}, <<>>), t) :
                                      t \in Tokens},
                 bodies |-> {GoodBody, NoBody},
                 upstreams |-> {Upstream(200, "json"), Upstream(201, "json"),
                                Upstream(404, "json"), Upstream(200, "text"),
                                Upstream(200, "binary"), Upstream(500, "text"),
                                UpBroken, UpNull, UpWide}]
    /\ Loaded(1)

SpecResponse == InitResponse /\ [][Next]_vars

\* two calls in flight through one handler, answered by upstream bodies that
\* transformResponse tells apart or not
ShapingOptions ==
    {[DefaultOptions EXCEPT !.auth = h, !.csrf = h, !.rateLimit = h, !.validate = h,
                            !.log = h, !.monitor = h,
                            !.transformResponse = t, !.baseUrl = Str(sBase)] :
        h \in BOOLEAN, t \in BOOLEAN}

InitShaping ==
    /\ options \in ShapingOptions
    /\ inputs = [handlers |-> {h \in ShapingOptions : h.log = options.log},
                 requests |-> {Request("POST", OriginApp, {}, <<>>)},
                 bodies |-> {GoodBody},
                 upstreams |-> {UpOk, UpWide, UpNull, Upstream(200, "text"),
                                Upstream(404, "json"), UpBroken}]
    /\ Loaded(2)

SpecShaping == InitShaping /\ [][Next]_vars

\* the in-memory rate limiter keyed by getClientIp: calls with and without an
\* x-forwarded-for header, with and without a socket address
KeysOptions ==
    {[DefaultOptions EXCEPT !.baseUrl = Str(sBase), !.inMemoryRate = r] :
        r \in {Rate(1, 2, FALSE), Rate(2, 1, FALSE), Rate(1, 0, FALSE)}}
    \cup {[DefaultOptions EXCEPT !.auth = TRUE, !.csrf = TRUE, !.rateLimit = TRUE,
                                 !.validate = TRUE, !.baseUrl = Str(sBase),
                                 !.inMemoryRate = Rate(2, 1, FALSE)]}

\* x-forwarded-for and remoteAddress of the calls: neither, an address only, an empty
\* header, a header of two entries
Callers ==
    {<<JsNull, <<>> >>, <<JsNull, <<"9">> >>, <<Str(<<>>), <<"9">> >>,
     <<Str(<<"1", ",", "2">>), <<>> >>, <<Str(<<" ", "1", " ", ",", "2">>), <<"9">> >>}

InitKeys ==
    /\ options \in KeysOptions
    /\ inputs = [handlers |-> SameRate(KeysOptions, options),
                 requests |-> {From(Request("POST", "", {}, <<>>), c[1], c[2]) :
                                 c \in Callers},
                 bodies |-> {GoodBody},
                 upstreams |-> {UpOk, UpBroken}]
    /\ Loaded(1)

SpecKeys == InitKeys /\ [][Next]_vars

\* several handlers of one process, each with an in-memory rate configuration of
\* its own, serving the same clients
SharedOptions ==
    {[DefaultOptions EXCEPT !.baseUrl = Str(sBase), !.inMemoryRate = r] :
        r \in {Rate(1, 1, TRUE), Rate(2, 2, TRUE), Rate(1, 3, TRUE)}}
    \cup {[DefaultOptions EXCEPT !.auth = TRUE, !.csrf = TRUE, !.rateLimit = TRUE,
                                 !.validate = TRUE, !.baseUrl = Str(sBase),
                                 !.inMemoryRate = Rate(2, 1, TRUE)]}

InitShared ==
    /\ options \in SharedOptions
    /\ inputs = [handlers |-> SharedOptions,
                 requests |-> {Request("POST", "", {}, k) : k \in {<<"k", "1">>, <<"k", "2">>}},
                 bodies |-> {GoodBody},
                 upstreams |-> {UpOk, UpBroken}]
    /\ Loaded(1)

SpecShared == InitShared /\ [][Next]_vars

----------------------------------------------------------------------------
(* Properties of the guard chain *)

GuardSteps == <<"auth", "csrf", "isOriginAllowed", "applyInMemoryRate", "rateLimit", "validate">>

\* is the guard part of this handler
Present(g) ==
    CASE g = "isOriginAllowed" -> TRUE
      [] g = "applyInMemoryRate" -> options.inMemoryRate.configured
      [] OTHER -> options[g]

\* did the guard let the invocation through
Passed(s, g) ==
    CASE g = "isOriginAllowed" -> s.originOk = "allow"
      [] g = "applyInMemoryRate" -> s.rate.dec = "allow"
      [] OTHER -> g \notin s.req.deny

\* the first guard of the chain that denies a non-preflight call, "none" if none does
FirstDenial(s) ==
    IF options.auth /\ "auth" \in s.req.deny THEN "auth"
    ELSE IF options.csrf /\ "csrf" \in s.req.deny THEN "csrf"
    ELSE IF ~isOriginAllowed(s.req.origin, s.req) THEN "origin"
    ELSE IF options.inMemoryRate.configured /\ s.rate.dec = "deny" THEN "rate"
    ELSE IF options.rateLimit /\ "rateLimit" \in s.req.deny THEN "rateLimit"
    ELSE IF options.validate /\ "validate" \in s.req.deny THEN "validate"
    ELSE "none"

OriginDenialBody(origin) ==
    IF options.onCorsDenied = "custom" THEN [denied |-> origin]
    ELSE [error |-> "Origin not allowed"]

\* C4: a finished non-preflight call carries the response of the first guard, in the
\* order auth, csrf, origin, in-memory rate, external rate, validate, that denies it:
\* 401 "Unauthorized (auth)", 403 "Forbidden (csrf/xss)", 403 with the origin-denial
\* body, 429 "Rate limit exceeded", 401 "Unauthorized"; a call no guard denies gets
\* past the chain to the parsing of its body.
C4_GuardOrder ==
    \A i \in DOMAIN inv :
        LET s == inv[i]
            f == FirstDenial(s)
        IN  (s.pc = "done" /\ s.req.method # "OPTIONS") =>
              /\ f = "auth" =>
                    s.resp = [status |-> 401, body |-> [error |-> "Unauthorized (auth)"],
                              headers |-> NoHeaders]
              /\ f = "csrf" =>
                    s.resp = [status |-> 403, body |-> [error |-> "Forbidden (csrf/xss)"],
                              headers |-> NoHeaders]
              /\ f = "origin" =>
                    s.resp = [status |-> 403, body |-> OriginDenialBody(s.req.origin),
                              headers |-> NoHeaders]
              /\ f \in {"rate", "rateLimit"} =>
                    s.resp = [status |-> 429, body |-> [error |-> "Rate limit exceeded"],
                              headers |-> NoHeaders]
              /\ f = "validate" =>
                    s.resp = [status |-> 401, body |-> [error |-> "Unauthorized"],
                              headers |-> NoHeaders]
              /\ f = "none" => s.payload.parsed

\* C4: the claim's first example has happened: auth and csrf both deny, the answer is 401
C4_Witness ==
    \E i \in DOMAIN inv :
        /\ inv[i].pc = "done" /\ inv[i].req.method = "POST"
        /\ options.auth /\ options.csrf
        /\ {"auth", "csrf"} \subseteq inv[i].req.deny
        /\ inv[i].resp.status = 401

Index(seq, x) == CHOOSE k \in DOMAIN seq : seq[k] = x

Occurrences(seq, x) == Cardinality({k \in DOMAIN seq : seq[k] = x})

Range(seq) == {seq[k] : k \in DOMAIN seq}

AfterGuards == {"req.json", "transformRequest", "sanitize", "maskSensitiveData",
                "fetch", "transformResponse", "monitor"}

\* C5: a guard's denial ends the invocation: the denying guard is the last guard asked,
\* no request event is emitted, none of transformRequest, sanitize, maskSensitiveData,
\* transformResponse, monitor runs and no outbound call is issued; each guard is asked
\* at most once, and only after every earlier guard of the handler has let the call pass.
C5_DenialIsTerminal ==
    \A i \in DOMAIN inv :
        LET s == inv[i]
            c == s.calls
        IN  /\ \A n \in DOMAIN GuardSteps : Occurrences(c, GuardSteps[n]) <= 1
            /\ \A n \in DOMAIN GuardSteps :
                  GuardSteps[n] \in Range(c) =>
                     \A m \in 1..(n - 1) :
                        Present(GuardSteps[m]) =>
                           /\ GuardSteps[m] \in Range(c)
                           /\ Index(c, GuardSteps[m]) < Index(c, GuardSteps[n])
                           /\ Passed(s, GuardSteps[m])
            /\ \A n \in DOMAIN GuardSteps :
                  (GuardSteps[n] \in Range(c) /\ s.pc \notin {GuardSteps[n]}
                     /\ ~Passed(s, GuardSteps[n])) =>
                     /\ s.pc = "done"
                     /\ \A m \in (n + 1)..Len(GuardSteps) : GuardSteps[m] \notin Range(c)
                     /\ \A k \in DOMAIN s.events : s.events[k].type # "request"
                     /\ Range(c) \cap AfterGuards = {}
                     /\ ~s.out.issued

\* C5: a call that passed five guards has been denied by the sixth, validate, under a
\* handler that logs
C5_Witness ==
    \E i \in DOMAIN inv :
        /\ options.log
        /\ inv[i].pc = "done"
        /\ inv[i].calls = GuardSteps
        /\ "validate" \in inv[i].req.deny
        /\ inv[i].resp.status = 401

\* the invocation has come to the preflight branch: auth and csrf, where configured,
\* have answered and let it pass
ReachedPreflight(s) ==
    /\ s.pc \notin {"idle", "start", "auth", "csrf"}
    /\ ~(options.auth /\ "auth" \in s.req.deny)
    /\ ~(options.csrf /\ "csrf" \in s.req.deny)

\* C6: an OPTIONS call that reaches the preflight branch ends there with 204 or 403; it
\* never runs the in-memory rate limiter, the external rate predicate or validate,
\* emits no request or response event and issues no outbound call.
C6_PreflightEndsThere ==
    \A i \in DOMAIN inv :
        LET s == inv[i]
        IN  (s.req.method = "OPTIONS" /\ ReachedPreflight(s)) =>
              /\ s.pc = "done"
              /\ s.resp.status \in {204, 403}
              /\ s.rate.dec = "none"
              /\ Range(s.calls) \cap ({"applyInMemoryRate", "rateLimit", "validate"}
                                        \cup AfterGuards) = {}
              /\ \A k \in DOMAIN s.events : s.events[k].type \notin {"request", "response"}
              /\ ~s.out.issued

\* C6: a preflight has been answered by a handler with every later guard configured
C6_Witness ==
    \E i \in DOMAIN inv :
        /\ inv[i].req.method = "OPTIONS" /\ inv[i].pc = "done"
        /\ inv[i].resp.status \in {204, 403}
        /\ options.inMemoryRate.configured /\ options.rateLimit /\ options.validate
        /\ options.log
        /\ inv[i].req.deny = {"rateLimit", "validate"}

\* is the policy an exact-origin policy: one origin, or a list without the wildcard
ExactPolicy(a) ==
    \/ a.kind = "string" /\ a.s # "*"
    \/ a.kind = "list" /\ "*" \notin a.l

\* does the origin match the exact-origin policy
Matches(a, origin) ==
    \/ a.kind = "string" /\ origin = a.s
    \/ a.kind = "list" /\ origin \in a.l

\* C7: under an exact-origin policy a preflight whose origin does not match is answered
\* 403, and the Access-Control-Allow-Origin header of that answer does not name the
\* denied origin.
C7_DeniedPreflightHeaders ==
    \A i \in DOMAIN inv :
        LET s == inv[i]
        IN  (/\ s.req.method = "OPTIONS" /\ ReachedPreflight(s)
             /\ ExactPolicy(options.allowOrigins)
             /\ ~Matches(options.allowOrigins, s.req.origin)) =>
              /\ s.pc = "done"
              /\ s.resp.status = 403
              /\ ACAO \in DOMAIN s.resp.headers => s.resp.headers[ACAO] # s.req.origin

\* C8 as claimed: under the policy "*" every finished preflight is a 204 that echoes
\* the origin, whatever else is configured
C8_AsClaimed ==
    \A i \in DOMAIN inv :
        LET s == inv[i]
        IN  (/\ s.req.method = "OPTIONS" /\ s.pc = "done"
             /\ options.allowOrigins = PolicyString("*")) =>
              /\ s.resp.status = 204
              /\ ACAO \in DOMAIN s.resp.headers
              /\ s.resp.headers[ACAO] = s.req.origin

\* C8: under the policy "*" a preflight that the auth and csrf guards (where configured)
\* let pass is answered 204 with Access-Control-Allow-Origin equal to the request's
\* origin, whatever rate limits and validate are configured.
C8_WildcardPreflight ==
    \A i \in DOMAIN inv :
        LET s == inv[i]
        IN  (/\ s.req.method = "OPTIONS" /\ ReachedPreflight(s)
             /\ options.allowOrigins = PolicyString("*")) =>
              /\ s.pc = "done"
              /\ s.resp.status = 204
              /\ ACAO \in DOMAIN s.resp.headers
              /\ s.resp.headers[ACAO] = s.req.origin

\* C8: a wildcard preflight has been answered 204 by a handler with auth, csrf, both
\* rate limits and validate configured
C8_Witness ==
    \E i \in DOMAIN inv :
        /\ options.allowOrigins = PolicyString("*")
        /\ options.auth /\ options.csrf /\ options.rateLimit /\ options.validate
        /\ options.inMemoryRate.configured
        /\ inv[i].req.method = "OPTIONS" /\ inv[i].req.origin = OriginEvil
        /\ inv[i].pc = "done" /\ inv[i].resp.status = 204

----------------------------------------------------------------------------
(* Properties of the in-memory rate limiter.  hist records, per key, when  *)
(* the window of its entry was opened and how many calls have passed the   *)
(* guard in it; s.rate records the decision the invocation met.            *)

TooMany == [status |-> 429, body |-> [error |-> "Rate limit exceeded"], headers |-> NoHeaders]

\* this step takes invocation i through the in-memory rate guard
RateStep(i) ==
    /\ inv'[i] # inv[i]
    /\ inv'[i].rate.dec # "none"
    /\ inv[i].pc \in {"idle", "done", "threw"} \/ inv[i].rate.dec = "none"

\* C1: with max >= 1, a call that comes to the in-memory rate guard before the window
\* of its key expires, after max calls for that key have passed in that window, is
\* answered 429 {error: "Rate limit exceeded"}.
C1_OverLimitDenied ==
    [][\A i \in DOMAIN inv :
          LET cfg == options.inMemoryRate
              k == inv'[i].rate.key
          IN  (/\ RateStep(i)
               /\ k \in DOMAIN hist
               /\ cfg.max >= 1 /\ hist[k].admitted >= cfg.max
               /\ now < hist[k].opened + cfg.windowMs) =>
                /\ inv'[i].rate.dec = "deny"
                /\ inv'[i].pc = "done"
                /\ inv'[i].resp = TooMany]_vars

\* C1: with max = 2, a third call inside the window has been answered 429
C1_Witness ==
    \E i \in DOMAIN inv :
        /\ options.inMemoryRate.configured /\ options.inMemoryRate.max = 2
        /\ inv[i].rate.dec = "deny"
        /\ hist[inv[i].rate.key].admitted = 2
        /\ now < hist[inv[i].rate.key].opened + options.inMemoryRate.windowMs
        /\ inv[i].pc = "done" /\ inv[i].resp = TooMany

\* C2: a call for a key whose window was opened at t0, made at t with t - t0 >= windowMs
\* (t = t0 + windowMs included), starts a new window: it passes the guard and leaves
\* the entry {count: 1, expires: t + windowMs}.
C2_NewWindowAfterW ==
    [][\A i \in DOMAIN inv :
          LET cfg == options.inMemoryRate
              k == inv'[i].rate.key
          IN  (/\ RateStep(i)
               /\ k \in DOMAIN hist
               /\ now - hist[k].opened >= cfg.windowMs) =>
                /\ inv'[i].rate.dec = "allow"
                /\ rateStore'[k] = [count |-> 1, expires |-> now + cfg.windowMs]]_vars

\* C3: under every interleaving of invocations, with max >= 1, the calls that have
\* passed the in-memory rate guard for a key in its current window are exactly the
\* count of the key's entry (no update is lost) and never more than max.
C3_NoLostUpdate ==
    \A k \in DOMAIN hist :
        options.inMemoryRate.max >= 1 =>
          /\ k \in DOMAIN rateStore
          /\ rateStore[k].count = hist[k].admitted
          /\ hist[k].admitted <= options.inMemoryRate.max

\* C3: two invocations for one key are in flight at once, both past the rate guard, one
\* suspended at the external rate predicate and one at the outbound call, with the
\* window of the key full
C3_Witness ==
    \E i, j \in DOMAIN inv :
        /\ inv[i].pc = "rateLimit" /\ inv[j].pc = "fetch"
        /\ inv[i].rate.dec = "allow" /\ inv[j].rate.dec = "allow"
        /\ inv[i].rate.key = inv[j].rate.key
        /\ options.inMemoryRate.max = 2
        /\ hist[inv[i].rate.key].admitted = 2

----------------------------------------------------------------------------
(* Properties of the origin policy and of the request transform *)

\* the reference decision of C9
ReferenceAllowed(a, origin, req) ==
    CASE a.kind = "none" -> TRUE
      [] a.kind = "string" -> a.s = "*" \/ origin = a.s
      [] a.kind = "list" -> "*" \in a.l \/ origin \in a.l
      [] OTHER -> <<origin, req.method>> \in a.p

\* C9: whenever the preflight branch or the origin guard decides on an origin, the
\* decision is the reference's: no policy allows, "*" allows, any other string s
\* (the empty string included) allows exactly s, a list allows its members (all
\* origins if it holds "*"), a predicate decides by itself.
C9_OriginDecision ==
    \A i \in DOMAIN inv :
        inv[i].originOk # "none" =>
            ((inv[i].originOk = "allow") <=>
                ReferenceAllowed(options.allowOrigins, inv[i].req.origin, inv[i].req))

\* the body lacks the field (absent or empty) and the hook does not supply it
Missing(v, field) ==
    /\ v.t = "undefined" \/ (v.t = "string" /\ v.s = <<>>)
    /\ options.transformRequest \notin {field, "all"}

\* C10: when method or endpoint is absent or empty in the inbound body and the
\* transformRequest hook (if any) does not supply it, the call is answered
\* 400 {error: "Missing method or endpoint"} and no outbound call is issued.
C10_MissingRejected ==
    \A i \in DOMAIN inv :
        LET s == inv[i]
        IN  (/\ s.payload.parsed
             /\ Missing(s.payload.method, "method") \/ Missing(s.payload.endpoint, "endpoint")) =>
              /\ s.pc = "done"
              /\ s.resp = [status |-> 400, body |-> [error |-> "Missing method or endpoint"],
                           headers |-> NoHeaders]
              /\ ~s.out.issued

----------------------------------------------------------------------------
(* Properties of the resolution of the endpoint *)

\* a value that names a relative endpoint: not empty and without the http(s):// prefix
HttpPrefix(cs) ==
    \E k \in {7, 8} :
        /\ Len(cs) >= k
        /\ [j \in 1..k |-> LowerChar(cs[j])] \in
              {<<"h", "t", "t", "p", ":", "/", "/">>, <<"h", "t", "t", "p", "s", ":", "/", "/">>}

Relative(v) == ~Falsy(v) /\ ~HttpPrefix(String(v))

RelativeWithoutBase == Json(ErrorBody("Relative endpoint without baseUrl"), 400)

\* the invocation has gone through lines 283-298 without an exception
PastTransform(s) == s.payload.parsed /\ "catch" \notin Range(s.calls)

\* C11, as claimed: with no baseUrl, every call whose endpoint after the transform is
\* relative is answered 400 "Relative endpoint without baseUrl", issues no outbound
\* call and runs neither sanitize nor maskSensitiveData.
C11_AsClaimed ==
    \A i \in DOMAIN inv :
        LET s == inv[i]
        IN  (PastTransform(s) /\ Falsy(options.baseUrl) /\ Relative(s.endpoint)) =>
              /\ s.pc = "done" /\ s.resp = RelativeWithoutBase
              /\ ~s.out.issued
              /\ Range(s.calls) \cap {"sanitize", "maskSensitiveData"} = {}

\* C11, amended: with no baseUrl, every call whose method after the transform is not
\* empty and whose endpoint after the transform is relative is answered 400 "Relative
\* endpoint without baseUrl", issues no outbound call and runs neither sanitize nor
\* maskSensitiveData; with an empty method the answer is 400 "Missing method or
\* endpoint" instead.
C11_RelativeWithoutBaseUrl ==
    \A i \in DOMAIN inv :
        LET s == inv[i]
        IN  (PastTransform(s) /\ Falsy(options.baseUrl) /\ Relative(s.endpoint)) =>
              /\ s.pc = "done"
              /\ s.resp = IF Falsy(s.method)
                          THEN Json(ErrorBody("Missing method or endpoint"), 400)
                          ELSE RelativeWithoutBase
              /\ ~s.out.issued
              /\ Range(s.calls) \cap {"sanitize", "maskSensitiveData"} = {}

\* C11: a handler with sanitize and maskSensitiveData but no baseUrl has answered a call
\* with method "get" and endpoint "/t"
C11_Witness ==
    \E i \in DOMAIN inv :
        /\ inv[i].pc = "done" /\ inv[i].resp = RelativeWithoutBase
        /\ Falsy(options.baseUrl) /\ options.sanitize /\ options.maskSensitiveData
        /\ inv[i].method = Str(sget) /\ inv[i].endpoint = Str(sRel)

\* the part of a URL after the "://" of its scheme
AfterScheme(cs) ==
    LET seam == {k \in 1..(Len(cs) - 2) : SubSeq(cs, k, k + 2) = <<":", "/", "/">>}
        first == CHOOSE k \in seam : \A j \in seam : k <= j
    IN  IF seam = {} THEN cs ELSE SubSeq(cs, first + 3, Len(cs))

DoubleSlash(cs) == \E k \in 1..(Len(cs) - 1) : cs[k] = "/" /\ cs[k + 1] = "/"

\* C12: the URL of every outbound call made for a relative endpoint is baseUrl, one
\* slash, endpoint: after the "://" of the scheme it holds no "//", however many
\* slashes end baseUrl and however many start the endpoint.
C12_OneSlashAtSeam ==
    \A i \in DOMAIN inv :
        LET s == inv[i]
        IN  (s.out.issued /\ options.transformRequest = "none"
               /\ Relative(s.payload.endpoint)
               /\ AfterScheme(String(s.payload.endpoint)) = String(s.payload.endpoint)) =>
              ~DoubleSlash(AfterScheme(String(s.out.url)))

\* what the hook of this handler returns for the payload the invocation parsed
HookReturn(s) ==
    TransformRequestHook(options.transformRequest,
        [method |-> Str(String(s.payload.method)),
         endpoint |-> Str(String(s.payload.endpoint)),
         data |-> IF s.payload.data.t = "object" THEN s.payload.data ELSE Obj(<<"{}">>)])

\* the field after the transform, by partial override
Override(returned, original) == IF returned.t = "undefined" THEN original ELSE returned

\* C13: after transformRequest each of method, endpoint and data is the value the hook
\* returned for it, and the value of the inbound body where the hook returned none; a
\* hook that returns nothing leaves all three as they were.  (The endpoint is compared
\* where the handler has not gone on to resolve it against baseUrl.)
C13_PartialOverride ==
    \A i \in DOMAIN inv :
        LET s == inv[i]
            r == HookReturn(s)
        IN  (PastTransform(s) /\ options.transformRequest # "none") =>
              /\ s.method = Override(r.method, s.payload.method)
              /\ \/ s.data = Override(r.data, s.payload.data)
                 \/ Range(s.calls) \cap {"sanitize", "maskSensitiveData"} # {}
              /\ ~s.out.issued => s.endpoint = Override(r.endpoint, s.payload.endpoint)

----------------------------------------------------------------------------
(* Properties of the forwarding and of the response *)

\* fetch has resolved for this invocation
Answered(s) == s.upstream.status # 0

\* one of the three readings of the upstream body resolves
Readable(up) == up.kind \in {"json", "text", "binary"}

EventsOf(s, type) == {k \in DOMAIN s.events : s.events[k].type = type}

\* C14: with transformResponse configured, an upstream body that parses to a JSON object
\* and no failing hook, the body returned to the caller is transformResponse(parsed body)
\* and nothing else: the hook ran once and the upstream body itself is not returned.
C14_TransformedBody ==
    \A i \in DOMAIN inv :
        LET s == inv[i]
        IN  (/\ s.pc = "done" /\ Answered(s) /\ options.transformResponse
             /\ s.req.throws = {}
             /\ s.upstream.kind = "json" /\ s.upstream.body.t = "object") =>
              /\ s.resp.body = TransformResponseHook(s.upstream.body)
              /\ s.resp.body # s.upstream.body
              /\ Occurrences(s.calls, "transformResponse") = 1

\* C14: a call has come back with the transformed body of a 200 JSON answer
C14_Witness ==
    \E i \in DOMAIN inv :
        /\ inv[i].pc = "done" /\ options.transformResponse /\ inv[i].req.throws = {}
        /\ inv[i].upstream = Upstream(200, "json")
        /\ inv[i].resp.status = 200
        /\ inv[i].resp.body = Obj(<<"transformResponse", "up">>)

\* the invocation has passed the guards: it has come to the request event or beyond
PastGuards(s) == "req.json" \in Range(s.calls) \/ EventsOf(s, "request") # {}

\* C15: no failure raised from the request event on leaves the handler; a failure that
\* was raised ends the invocation with status 500 and the failure as the body's error,
\* after exactly one error event (where a log callback is configured).
C15_FailuresCaught ==
    \A i \in DOMAIN inv :
        LET s == inv[i]
        IN  PastGuards(s) =>
              /\ s.pc # "threw"
              /\ "catch" \in Range(s.calls) =>
                    /\ s.pc = "done" /\ s.resp.status = 500
                    /\ options.log => Cardinality(EventsOf(s, "error")) = 1

\* C16: a log callback that throws on the request event does not stop the invocation:
\* it goes on to read and transform the body.
C16_LogFailureSwallowed ==
    \A i \in DOMAIN inv :
        LET s == inv[i]
        IN  (LogThrows(s, "log.request") /\ EventsOf(s, "request") # {}) =>
              /\ s.pc # "threw"
              /\ "req.json" \in Range(s.calls)

\* the invocation has returned from the return step, lines 391-405
ReturnedUpstream(s) == s.pc = "done" /\ Answered(s) /\ "catch" \notin Range(s.calls)

\* C17: a forwarded call that got an upstream response is answered with the upstream's
\* status, whatever that status is.
C17_StatusMirrorsUpstream ==
    \A i \in DOMAIN inv :
        ReturnedUpstream(inv[i]) => inv[i].resp.status = inv[i].upstream.status

\* C18: at the return step a failed upstream status is passed on without CORS headers;
\* otherwise the status is 200 and the three CORS headers are attached, with the request
\* origin, exactly when the handler has an origin policy, of whatever shape.
C18_ReturnStep ==
    \A i \in DOMAIN inv :
        LET s == inv[i]
            failed == s.upstream.status < 200 \/ s.upstream.status > 299
        IN  ReturnedUpstream(s) =>
              IF failed
              THEN s.resp.status = s.upstream.status /\ s.resp.headers = NoHeaders
              ELSE /\ s.resp.status = 200
                   /\ s.resp.headers =
                         IF options.allowOrigins.kind \in {"string", "list", "function"}
                         THEN (ACAO :> s.req.origin)
                                @@ (ACAH :> "Content-Type, Authorization")
                                @@ (ACAM :> "POST,OPTIONS")
                         ELSE NoHeaders

C20_ParsingNeverRaises ==
    \A i \in DOMAIN inv :
        LET s == inv[i]
        IN  (s.pc \in {"done", "threw"} /\ s.req.throws = {}) =>
              /\ (s.payload = [parsed |-> TRUE, method |-> UNDEF, endpoint |-> UNDEF,
                               data |-> UNDEF] /\ options.transformRequest = "none") =>
                    s.resp = Json(ErrorBody("Missing method or endpoint"), 400)
              /\ Answered(s) => (s.pc = "done" /\ "catch" \notin Range(s.calls))

----------------------------------------------------------------------------
(* Properties of the CORS lists *)

\* C21: every answer of the preflight branch, allowed or denied, carries
\* Access-Control-Allow-Methods = corsMethods joined by "," (default "POST,OPTIONS") and
\* Access-Control-Allow-Headers = corsHeaders joined by ", " (default "Content-Type,
\* Authorization"); the allowed one is 204 without body, the denied one 403 with the
\* denial body.
C21_PreflightHeaders ==
    \A i \in DOMAIN inv :
        LET s == inv[i]
            h == s.resp.headers
            methods == IF options.corsMethods.set THEN Join(options.corsMethods.l, ",")
                       ELSE "POST,OPTIONS"
            headers == IF options.corsHeaders.set THEN Join(options.corsHeaders.l, ", ")
                       ELSE "Content-Type, Authorization"
        IN  (s.pc = "done" /\ s.req.method = "OPTIONS" /\ s.originOk # "none") =>
              /\ {ACAO, ACAH, ACAM} \subseteq DOMAIN h
              /\ h[ACAM] = methods /\ h[ACAH] = headers
              /\ s.originOk = "allow" =>
                    s.resp.status = 204 /\ s.resp.body = JsNull
              /\ s.originOk = "deny" =>
                    s.resp.status = 403 /\ s.resp.body = OriginDenialBody(s.req.origin)

\* C21: a handler with corsMethods ["GET", "POST"] and corsHeaders ["X-Custom"] has
\* denied a preflight
C21_Witness ==
    \E i \in DOMAIN inv :
        /\ inv[i].pc = "done" /\ inv[i].req.method = "OPTIONS"
        /\ inv[i].originOk = "deny" /\ inv[i].resp.status = 403
        /\ options.corsMethods = List(<<"GET", "POST">>)
        /\ inv[i].resp.headers[ACAM] = "GET,POST"
        /\ inv[i].resp.headers[ACAH] = "X-Custom"

----------------------------------------------------------------------------
(* Properties of the client identity and of the rate store *)

NoComma(cs) == \A k \in DOMAIN cs : cs[k] # ","
Blank(cs) == \A k \in DOMAIN cs : cs[k] = " "

\* e is the first comma-separated entry of the header value h, without the white
\* space around it
IsFirstEntry(e, h) ==
    \E n \in 0..Len(h) :
        LET p == SubSeq(h, 1, n)
        IN  /\ NoComma(p)
            /\ n = Len(h) \/ h[n + 1] = ","
            /\ \E a \in 0..n : \E b \in a..n :
                  /\ Blank(SubSeq(p, 1, a)) /\ Blank(SubSeq(p, b + 1, n))
                  /\ e = SubSeq(p, a + 1, b)
                  /\ e = <<>> \/ (e[1] # " " /\ e[Len(e)] # " ")

\* the invocation has been through the in-memory rate guard of a handler without a
\* key function
KeyedByAddress(s) == s.rate.dec # "none" /\ ~options.inMemoryRate.key

\* C22 as claimed: without a key function, the rate-limit key of a call is the first
\* comma-separated entry of its x-forwarded-for header if the header is present, else
\* the remote address if there is one, else "anon"; the counter of the call is the
\* entry of that key.
C22_AsClaimed ==
    \A i \in DOMAIN inv :
        LET s == inv[i]
            k == s.rate.key
        IN  KeyedByAddress(s) =>
              /\ k \in DOMAIN rateStore
              /\ IF s.req.xff # JsNull THEN IsFirstEntry(k, s.req.xff.s)
                 ELSE IF s.req.remote # <<>> THEN k = s.req.remote
                 ELSE k = sAnon

\* C22 (amended): without a key function, the rate-limit key of a call is the first
\* comma-separated entry of its x-forwarded-for header if the header is present and
\* not empty, else the remote address if there is one, else "anon"; the counter of
\* the call is the entry of that key.
C22_ClientKey ==
    \A i \in DOMAIN inv :
        LET s == inv[i]
            k == s.rate.key
        IN  KeyedByAddress(s) =>
              /\ k \in DOMAIN rateStore
              /\ IF s.req.xff # JsNull /\ s.req.xff.s # <<>>
                 THEN IsFirstEntry(k, s.req.xff.s)
                 ELSE IF s.req.remote # <<>> THEN k = s.req.remote
                 ELSE k = sAnon

\* C22: a call with the header " 1 ,2" and a socket address has been counted under
\* "1", the key that already held a call with the header "1,2"
C22_Witness ==
    \E i \in DOMAIN inv :
        /\ KeyedByAddress(inv[i])
        /\ inv[i].req.xff = Str(<<" ", "1", " ", ",", "2">>)
        /\ inv[i].req.remote = <<"9">>
        /\ inv[i].rate.key = <<"1">>
        /\ rateStore[<<"1">>].count = 2

\* C23: a call that the in-memory rate counter denies (the entry of its key is
\* present, not expired, and its count is max or more) leaves the whole rate store as
\* it was: the count and the expiry of its key and the entry of every other key.
C23_DenialLeavesStore ==
    [][\A i \in DOMAIN inv :
          LET cfg == options.inMemoryRate
              k == inv'[i].rate.key
              full == /\ k \in DOMAIN rateStore
                      /\ rateStore[k].expires >= now
                      /\ rateStore[k].count >= cfg.max
          IN  RateStep(i) =>
                /\ full <=> inv'[i].rate.dec = "deny"
                /\ full => rateStore' = rateStore]_vars

\* C23: a call has been denied at the last moment of its key's window, while the
\* store holds the entries of other keys
C23_Witness ==
    \E i \in DOMAIN inv :
        /\ inv[i].rate.dec = "deny" /\ inv[i].pc = "done"
        /\ rateStore[inv[i].rate.key].expires = now
        /\ Cardinality(DOMAIN rateStore) = 3

RECURSIVE Total(_, _)
\* the sum of f over the set S
Total(f, S) ==
    IF S = {} THEN 0
    ELSE LET t == CHOOSE x \in S : TRUE IN f[t] + Total(f, S \ {t})

\* the calls admitted for key k at the times a..b
AdmittedIn(k, a, b) == Total(hist[k].times, DOMAIN hist[k].times \cap a..b)

\* C24: under one configuration {windowMs: W, max: M} with M >= 1, whatever the calls
\* and the passage of time, the calls admitted for a key in any interval of length W
\* are at most 2 * M.
C24_AtMostTwiceMax ==
    \A k \in DOMAIN hist :
        LET cfg == options.inMemoryRate
        IN  cfg.max >= 1 =>
              /\ DOMAIN hist[k].times \subseteq (now - cfg.windowMs)..now
              /\ \A a \in 0..MaxTime : AdmittedIn(k, a, a + cfg.windowMs) <= 2 * cfg.max

\* C24: with {windowMs: 1, max: 2}, three calls have been admitted for one key in an
\* interval of length 1, across the boundary of two windows
C24_Witness ==
    \E k \in DOMAIN hist :
        /\ options.inMemoryRate = Rate(1, 2, FALSE)
        /\ hist[k].opened = now
        /\ AdmittedIn(k, now - 1, now) = 3

\* C25: the set of keys of the rate store never shrinks: whatever the invocations and
\* the passage of time, no step removes a key, and every key for which a call was
\* ever admitted is still present (an expired entry stays until the key's next call
\* overwrites it).
C25_KeysNeverRemoved ==
    [][/\ DOMAIN rateStore \subseteq DOMAIN rateStore'
       /\ DOMAIN hist' \subseteq DOMAIN rateStore'
       /\ \A k \in DOMAIN rateStore :
             rateStore'[k] # rateStore[k] =>
                \E i \in DOMAIN inv : RateStep(i) /\ inv'[i].rate.key = k]_vars

\* C25: the store holds three keys, one of them in an entry that expired two ticks
\* ago, after calls for the other keys
C25_Witness ==
    \E k \in DOMAIN rateStore :
        /\ Cardinality(DOMAIN rateStore) = 3
        /\ rateStore[k].expires + 2 <= now
        /\ \E j \in DOMAIN rateStore : rateStore[j].expires >= now

\* C26: the rate store is one mapping shared by every handler made by
\* nextProxyHandler: a call that comes to the rate guard of a handler is counted
\* against the calls admitted for its key by whatever handlers in the window of the
\* key's entry, under the max of the handler it came to, and the window of an entry
\* is as long as the windowMs of the handler that opened it.
C26_SharedStore ==
    [][\A i \in DOMAIN inv :
          LET cfg == options.inMemoryRate
              k == inv'[i].rate.key
              live == k \in DOMAIN hist /\ now <= hist[k].opened + hist[k].windowMs
          IN  RateStep(i) =>
                /\ (live /\ hist[k].admitted >= cfg.max) =>
                      inv'[i].rate.dec = "deny" /\ rateStore' = rateStore
                /\ (live /\ hist[k].admitted < cfg.max) =>
                      /\ inv'[i].rate.dec = "allow"
                      /\ rateStore'[k] = [count |-> hist[k].admitted + 1,
                                          expires |-> hist[k].opened + hist[k].windowMs]
                /\ ~live =>
                      /\ inv'[i].rate.dec = "allow"
                      /\ rateStore'[k] = [count |-> 1, expires |-> now + cfg.windowMs]
                      /\ hist'[k].windowMs = cfg.windowMs]_vars

\* C26: a handler with {windowMs: 1, max: 1} has denied a call for a key whose entry
\* was opened, two ticks ago, by a handler with windowMs 2
C26_Witness ==
    \E i \in DOMAIN inv :
        LET k == inv[i].rate.key
        IN  /\ inv[i].rate.dec = "deny" /\ inv[i].pc = "done"
            /\ options.inMemoryRate = Rate(1, 1, TRUE)
            /\ hist[k].windowMs = 2 /\ hist[k].opened + 2 = now

----------------------------------------------------------------------------
(* Properties of the forwarding *)

\* C27: transformResponse is invoked if and only if it is configured and the parsed
\* upstream body is a plain structured object; it is not invoked for a body decoded as
\* text nor for the binary descriptor {message, length}, which are returned as parsed.
C27_TransformOnlyParsedObject ==
    \A i \in DOMAIN inv :
        LET s == inv[i]
            up == s.upstream
        IN  (s.pc = "done" /\ Answered(s) /\ Readable(up) /\ s.req.throws = {}) =>
              /\ "transformResponse" \in Range(s.calls) <=>
                    (options.transformResponse /\ up.kind = "json" /\ up.body.t = "object")
              /\ up.kind \in {"text", "binary"} =>
                    s.resp.body = (IF up.kind = "text" THEN Str(<<"t", "x", "t">>)
                                   ELSE Obj(<<"Unprocessable response (binary)">>))

\* the data after the transform: the hook's data, or the inbound body's
PostTransformData(s) ==
    IF options.transformRequest = "none" THEN s.payload.data
    ELSE Override(HookReturn(s).data, s.payload.data)

\* C28: for every forwarded call sanitize runs before maskSensitiveData and each
\* replaces data wholesale: the data of the outbound body is mask(sanitize(d)), d being
\* the data after the transform and a hook that is not configured the identity; the
\* two run only once method and endpoint have been validated and the endpoint
\* resolved.
C28_SanitizeThenMask ==
    \A i \in DOMAIN inv :
        LET s == inv[i]
            d == PostTransformData(s)
            sd == IF options.sanitize THEN Made("sanitize", d) ELSE d
            md == IF options.maskSensitiveData THEN Made("maskSensitiveData", sd) ELSE sd
            ran == Range(s.calls) \cap {"sanitize", "maskSensitiveData"}
        IN  /\ s.out.issued =>
                /\ s.data = md
                /\ s.out.body # UNDEF =>
                      s.out.body = (IF md.t = "undefined" THEN Obj(<<"{}">>) ELSE md)
                /\ options.sanitize <=> Occurrences(s.calls, "sanitize") = 1
                /\ options.maskSensitiveData <=>
                      Occurrences(s.calls, "maskSensitiveData") = 1
                /\ (options.sanitize /\ options.maskSensitiveData) =>
                      Index(s.calls, "sanitize") < Index(s.calls, "maskSensitiveData")
            /\ ran # {} =>
                /\ s.payload.parsed
                /\ ~Falsy(s.method) /\ ~Falsy(s.endpoint)
                /\ HttpPrefix(String(s.endpoint))
                /\ \A k \in DOMAIN s.calls : \A j \in DOMAIN s.calls :
                      (s.calls[k] \in ran /\ s.calls[j] \in {"req.json", "transformRequest"})
                         => j < k

\* C28: a call whose data the transform replaced has been sent with the body
\* mask(sanitize(transform(d)))
C28_Witness ==
    \E i \in DOMAIN inv :
        /\ inv[i].out.issued
        /\ options.sanitize /\ options.maskSensitiveData
        /\ options.transformRequest = "data"
        /\ inv[i].out.body = Obj(<<"maskSensitiveData", "sanitize", "transformRequest", "d">>)

\* u is cs with its lower-case letters turned to upper case
UpperOf(u, cs) ==
    /\ Len(u) = Len(cs)
    /\ \A k \in DOMAIN cs :
          /\ LowerChar(u[k]) = LowerChar(cs[k])
          /\ \A j \in DOMAIN LowerCase : u[k] # LowerCase[j]

\* C29: the method of the outbound call is the method after the transform in upper
\* case; the call carries Content-Type: application/json and a serialized body (data,
\* or {} when data is absent) if and only if that method is not GET or HEAD, so that a
\* method "get" is sent without body.
C29_BodyUnlessGetOrHead ==
    \A i \in DOMAIN inv :
        LET s == inv[i]
            o == s.out
            bodyless == o.method = <<"G", "E", "T">> \/ o.method = <<"H", "E", "A", "D">>
        IN  s.out.issued =>
              /\ UpperOf(o.method, String(s.method))
              /\ bodyless => (ContentType \notin DOMAIN o.headers /\ o.body = UNDEF)
              /\ ~bodyless =>
                    /\ ContentType \in DOMAIN o.headers
                    /\ o.headers[ContentType] = <<"application/json">>
                    /\ o.body = (IF s.data.t \in {"undefined", "null"}
                                 THEN Obj(<<"{}">>) ELSE s.data)

\* C29: a call with the method "get" and data has been sent as GET without body and
\* without Content-Type
C29_Witness ==
    \E i \in DOMAIN inv :
        /\ inv[i].out.issued
        /\ inv[i].method = Str(<<"g", "e", "t">>)
        /\ inv[i].data = Obj(<<"d">>)
        /\ inv[i].out.method = <<"G", "E", "T">>
        /\ inv[i].out.body = UNDEF
        /\ ContentType \notin DOMAIN inv[i].out.headers

\* "Bearer <token>": the scheme, one space, a token without spaces
WellFormedBearer(v) ==
    /\ Len(v) > 7
    /\ SubSeq(v, 1, 7) = <<"B", "e", "a", "r", "e", "r", " ">>
    /\ \A k \in 8..Len(v) : v[k] # " "

\* C30: the outbound call carries an Authorization header if and only if the inbound
\* call has a non-empty one; its value is the inbound value when that value is already
\* Bearer-prefixed and "Bearer " followed by the inbound value otherwise, so that every
\* outbound Authorization value is a well-formed "Bearer <token>".
C30_BearerAuthorization ==
    \A i \in DOMAIN inv :
        LET s == inv[i]
            t == s.req.token
            has == t.t = "string" /\ t.s # <<>>
            h == s.out.headers
        IN  s.out.issued =>
              /\ "Authorization" \in DOMAIN h <=> has
              /\ has =>
                    /\ h["Authorization"] =
                          (IF Len(t.s) >= 6 /\ SubSeq(t.s, 1, 6) = <<"B", "e", "a", "r", "e", "r">>
                           THEN t.s
                           ELSE <<"B", "e", "a", "r", "e", "r", " ">> \o t.s)
                    /\ WellFormedBearer(h["Authorization"])

\* the endpoint after the transform, as a string: the hook's, or String(the body's)
PostTransformEndpoint(s) ==
    IF options.transformRequest = "none" THEN String(s.payload.endpoint)
    ELSE String(Coalesce(HookReturn(s).endpoint, Str(String(s.payload.endpoint))))

\* cs begins with a scheme: letters, then "://"
SchemePrefix(cs) ==
    \E k \in 1..(Len(cs) - 3) :
        /\ SubSeq(cs, k + 1, k + 3) = <<":", "/", "/">>
        /\ \A j \in 1..k : LowerChar(cs[j]) # UpperChar(cs[j])

\* C31 as claimed: an endpoint that begins with scheme://, whatever the scheme, is
\* forwarded unchanged, with or without baseUrl; only the other endpoints are resolved
\* against baseUrl.
C31_AsClaimed ==
    \A i \in DOMAIN inv :
        LET s == inv[i]
            e == PostTransformEndpoint(s)
        IN  /\ s.out.issued =>
                  IF SchemePrefix(e) THEN s.out.url = Str(e)
                  ELSE /\ ~Falsy(options.baseUrl)
                       /\ s.out.url = Str(Resolve(options.baseUrl.s, e))
            /\ (s.pc = "done" /\ s.resp = RelativeWithoutBase) => ~SchemePrefix(e)

\* C31 (amended): an endpoint that begins with http:// or https://, in any letter
\* case, is forwarded unchanged, with or without baseUrl; only the other endpoints
\* are resolved against baseUrl, and rejected when there is none.
C31_HttpForwardedUnchanged ==
    \A i \in DOMAIN inv :
        LET s == inv[i]
            e == PostTransformEndpoint(s)
        IN  /\ s.out.issued =>
                  IF HttpPrefix(e) THEN s.out.url = Str(e)
                  ELSE /\ ~Falsy(options.baseUrl)
                       /\ s.out.url = Str(Resolve(options.baseUrl.s, e))
            /\ (s.pc = "done" /\ s.resp = RelativeWithoutBase) => ~HttpPrefix(e)

\* C31: a handler without baseUrl has forwarded a call to "HTTPS://b" as it was given
C31_Witness ==
    \E i \in DOMAIN inv :
        /\ inv[i].out.issued
        /\ Falsy(options.baseUrl)
        /\ inv[i].payload.endpoint = Str(sHTTPS)
        /\ inv[i].out.url = Str(sHTTPS)

----------------------------------------------------------------------------
(* Properties of the guards, step by step *)

\* this step takes invocation i through the origin decision
OriginStep(i) ==
    /\ inv'[i] # inv[i]
    /\ inv'[i].originOk # "none"
    /\ inv[i].pc \in {"idle", "done", "threw"} \/ inv[i].originOk = "none"

\* C32: a call that is not a preflight and whose origin the policy denies is answered
\* 403 without any CORS header, with the body onCorsDenied(origin) returns, or
\* {error: "Origin not allowed"} when the hook is absent or returns a falsy value; the
\* rate store is not touched and no outbound call is issued.
C32_OriginDenial ==
    [][\A i \in DOMAIN inv :
          LET t == inv'[i]
          IN  (OriginStep(i) /\ t.req.method # "OPTIONS" /\ t.originOk = "deny") =>
                /\ t.pc = "done"
                /\ t.resp.status = 403
                /\ DOMAIN t.resp.headers \cap {ACAO, ACAH, ACAM} = {}
                /\ t.resp.body = OriginDenialBody(t.req.origin)
                /\ rateStore' = rateStore
                /\ t.rate.dec = "none" /\ ~t.out.issued
                /\ Range(t.calls) \cap {"applyInMemoryRate", "fetch"} = {}]_vars

\* C32: a handler whose onCorsDenied returns a falsy value has denied a POST with the
\* default body, the rate store holding the count of an earlier call
C32_Witness ==
    \E i \in DOMAIN inv :
        /\ inv[i].pc = "done" /\ inv[i].req.method = "POST"
        /\ inv[i].originOk = "deny"
        /\ options.onCorsDenied = "falsy"
        /\ inv[i].resp = Json(ErrorBody("Origin not allowed"), 403)
        /\ DOMAIN rateStore # {}

\* C33: the external rate predicate is invoked only after the in-memory counter has
\* admitted the call, and its denial is answered by the same 429 {error: "Rate limit
\* exceeded"}; a call the in-memory counter denies never comes to the external
\* predicate.
C33_ExternalAfterInMemory ==
    \A i \in DOMAIN inv :
        LET s == inv[i]
            asked == "rateLimit" \in Range(s.calls)
        IN  /\ (asked /\ options.inMemoryRate.configured) =>
                  /\ s.rate.dec = "allow"
                  /\ Index(s.calls, "applyInMemoryRate") < Index(s.calls, "rateLimit")
            /\ s.rate.dec = "deny" => (~asked /\ s.pc = "done" /\ s.resp = TooMany)
            /\ (asked /\ s.pc # "rateLimit" /\ "rateLimit" \in s.req.deny) =>
                  /\ s.pc = "done" /\ s.resp = TooMany
                  /\ s.calls[Len(s.calls)] = "rateLimit"

\* C33: a call the in-memory counter admitted has been denied by the external
\* predicate with the 429
C33_Witness ==
    \E i \in DOMAIN inv :
        /\ options.inMemoryRate.configured /\ options.rateLimit
        /\ inv[i].rate.dec = "allow"
        /\ "rateLimit" \in inv[i].req.deny
        /\ inv[i].calls[Len(inv[i].calls)] = "rateLimit"
        /\ inv[i].pc = "done" /\ inv[i].resp = TooMany

\* C34: the slot of the in-memory counter is taken at the rate guard, before the fate
\* of the call is known: the step through the guard that admits a call counts it, and
\* no later step of the call (a denial by the external predicate or by validate, a
\* 400, a 500) gives the slot back; a call stopped by auth, csrf, the preflight branch
\* or the origin guard never changes the counter.
C34_SlotTakenAtGuard ==
    [][/\ \A i \in DOMAIN inv :
             LET t == inv'[i]
                 k == t.rate.key
             IN  /\ (RateStep(i) /\ t.rate.dec = "allow") =>
                       /\ k \in DOMAIN rateStore'
                       /\ rateStore'[k].count =
                             (IF k \in DOMAIN rateStore /\ rateStore[k].expires >= now
                              THEN rateStore[k].count + 1 ELSE 1)
                 /\ (inv'[i] # inv[i] /\ ~RateStep(i)) => rateStore' = rateStore
                 /\ (t.pc = "done" /\ t.rate.dec = "none") =>
                       "applyInMemoryRate" \notin Range(t.calls)
       /\ rateStore' # rateStore => \E i \in DOMAIN inv : RateStep(i)]_vars

\* C34: a call that validate denied, after the in-memory counter admitted it, still
\* holds the only slot of its key in the live window
C34_Witness ==
    \E i \in DOMAIN inv :
        LET s == inv[i]
        IN  /\ s.pc = "done" /\ s.rate.dec = "allow"
            /\ "validate" \in s.req.deny /\ s.resp = Json(ErrorBody("Unauthorized"), 401)
            /\ rateStore[s.rate.key] = [count |-> 1, expires |-> now]
            /\ options.inMemoryRate.max = 1

\* C35: under one configuration {windowMs, max}, max >= 0, every entry of the rate
\* store has 1 <= count <= max in every reachable state: the calls admitted for a key
\* in one window are never more than max, and with max = 0 no call is admitted.
C35_CountWithinMax ==
    LET cfg == options.inMemoryRate
    IN  cfg.configured =>
          /\ \A k \in DOMAIN rateStore :
                1 <= rateStore[k].count /\ rateStore[k].count <= cfg.max
          /\ \A k \in DOMAIN hist : hist[k].admitted <= cfg.max
          /\ cfg.max = 0 => \A i \in DOMAIN inv : inv[i].rate.dec # "allow"

\* what the history holds of key k, the admission times left aside
Record(h, k) ==
    IF k \in DOMAIN h
    THEN [opened |-> h[k].opened, admitted |-> h[k].admitted, windowMs |-> h[k].windowMs]
    ELSE [opened |-> -1]

\* C36: rate decisions are independent across keys.  A call for a key changes no other
\* key's entry, and its decision and the entry it leaves are a function of the time,
\* the configuration and the key's own record, which only the calls for that key
\* change: two runs with the same calls for a key at the same times, whatever their
\* calls for other keys, give the calls for that key the same decisions.
C36_KeysIndependent ==
    [][\A i \in DOMAIN inv :
          LET cfg == options.inMemoryRate
              k == inv'[i].rate.key
              own == Record(hist, k)
              live == own.opened >= 0 /\ now <= own.opened + own.windowMs
              allow == ~live \/ own.admitted < cfg.max
          IN  RateStep(i) =>
                /\ inv'[i].rate.dec = (IF allow THEN "allow" ELSE "deny")
                /\ Record(hist', k) =
                      (IF ~live THEN [opened |-> now, admitted |-> 1,
                                      windowMs |-> cfg.windowMs]
                       ELSE IF allow THEN [own EXCEPT !.admitted = @ + 1]
                       ELSE own)
                /\ rateStore'[k] = [count |-> Record(hist', k).admitted,
                                    expires |-> Record(hist', k).opened + cfg.windowMs]
                /\ \A j \in (DOMAIN rateStore \cup DOMAIN rateStore') \ {k} :
                      /\ j \in DOMAIN rateStore /\ j \in DOMAIN rateStore'
                      /\ rateStore'[j] = rateStore[j]
                      /\ Record(hist', j) = Record(hist, j)]_vars

\* C36: a call for the key "1" has been admitted while the entry of "anon" is at its
\* limit in a live window
C36_Witness ==
    \E i \in DOMAIN inv :
        /\ inv[i].rate.dec = "allow" /\ inv[i].rate.key = <<"1">>
        /\ inv[i].pc = "json"
        /\ rateStore[<<"1">>].count = 2
        /\ sAnon \in DOMAIN rateStore
        /\ rateStore[sAnon].count = options.inMemoryRate.max
        /\ rateStore[sAnon].expires >= now

\* C37: the window is fixed, not sliding.  The expiry of an entry is written only when
\* the entry is made or made anew (the key absent, or its entry expired); a call
\* admitted in a live window adds exactly one to count and leaves the expiry; between
\* two initializations count never goes down and the expiry stays.
C37_FixedWindow ==
    [][\A k \in DOMAIN rateStore' :
          LET new == rateStore'[k]
              fresh == [count |-> 1, expires |-> now + options.inMemoryRate.windowMs]
          IN  IF k \notin DOMAIN rateStore THEN new = fresh
              ELSE LET old == rateStore[k]
                   IN  IF old.expires >= now
                       THEN /\ new.expires = old.expires
                            /\ new.count \in {old.count, old.count + 1}
                            /\ new.count = old.count + 1 <=>
                                  \E i \in DOMAIN inv :
                                      /\ RateStep(i) /\ inv'[i].rate.key = k
                                      /\ inv'[i].rate.dec = "allow"
                       ELSE new = old \/ new = fresh]_vars

\* C37: a second call has been admitted at the last moment of a window of length 1;
\* the entry counts two and still expires when it did
C37_Witness ==
    \E i \in DOMAIN inv :
        LET k == inv[i].rate.key
        IN  /\ inv[i].rate.dec = "allow" /\ inv[i].pc = "json"
            /\ options.inMemoryRate = Rate(1, 2, FALSE)
            /\ hist[k].opened = now - 1
            /\ rateStore[k] = [count |-> 2, expires |-> now]

\* the last hook or guard the invocation called
LastCall(s) == IF s.calls = <<>> THEN "none" ELSE s.calls[Len(s.calls)]

\* C38: guard denials are not audited alike.  With a log callback, an auth or a csrf
\* denial emits exactly one event, of kind error, carrying the status 401 or 403; an
\* origin denial, a preflight denial, a denial by the in-memory counter or by the
\* external rate predicate and a validate denial emit no event, and a 400 rejection of
\* a malformed call emits no event for the rejection (only the request event that
\* precedes the parsing is there).
C38_DenialAudit ==
    \A i \in DOMAIN inv :
        LET s == inv[i]
            errors == EventsOf(s, "error")
        IN  (options.log /\ s.pc = "done") =>
              /\ (LastCall(s) = "auth" /\ s.resp.status = 401) =>
                    /\ Len(s.events) = 1 /\ errors = {1}
                    /\ s.events[1].status = 401
              /\ (LastCall(s) = "csrf" /\ s.resp.status = 403) =>
                    /\ Len(s.events) = 1 /\ errors = {1}
                    /\ s.events[1].status = 403
              /\ (\/ s.originOk = "deny"
                  \/ s.rate.dec = "deny"
                  \/ LastCall(s) = "rateLimit" /\ s.resp.status = 429
                  \/ LastCall(s) = "validate" /\ s.resp.status = 401) =>
                    s.events = <<>>
              /\ s.resp.status = 400 =>
                    /\ errors = {}
                    /\ Len(s.events) = 1 /\ s.events[1].type = "request"

\* C38: with a log callback, a csrf denial has left one error event with status 403
C38_Witness ==
    \E i \in DOMAIN inv :
        /\ options.log /\ inv[i].pc = "done"
        /\ LastCall(inv[i]) = "csrf" /\ inv[i].resp.status = 403
        /\ Len(inv[i].events) = 1
        /\ inv[i].events[1].type = "error" /\ inv[i].events[1].status = 403

\* the body the handler works with after the shaping stage
ShapedBody(s) == Shaped(Parsed(s.upstream))

\* an event but for its payload
SansPayload(e) == [e EXCEPT !.payload = JsNull]

\* C39: the payload of the response event and the second argument of monitor are the
\* shaped body, the one returned to the caller, and not the upstream body where
\* transformResponse applies; so two calls whose upstream bodies transformResponse maps
\* to the same value have the same returned body, the same monitor argument and
\* response events that differ in nothing the rest of the call did not already make
\* different.
C39_ShapedBodyOnly ==
    /\ \A i \in DOMAIN inv :
          LET s == inv[i]
          IN  Answered(s) =>
                /\ \A k \in EventsOf(s, "response") :
                      /\ s.events[k].payload = ShapedBody(s)
                      /\ (options.transformResponse /\ Parsed(s.upstream).t = "object") =>
                            s.events[k].payload # Parsed(s.upstream)
                /\ s.monitored.called =>
                      /\ s.monitored.response = ShapedBody(s)
                      /\ (options.transformResponse /\ Parsed(s.upstream).t = "object") =>
                            s.monitored.response # Parsed(s.upstream)
                /\ ReturnedUpstream(s) => s.resp.body = ShapedBody(s)
    /\ \A i, j \in DOMAIN inv :
          LET s == inv[i]
              u == inv[j]
          IN  (Answered(s) /\ Answered(u) /\ ShapedBody(s) = ShapedBody(u)) =>
                /\ \A k \in EventsOf(s, "response"), l \in EventsOf(u, "response") :
                      SansPayload(s.events[k]) = SansPayload(u.events[l]) =>
                          s.events[k] = u.events[l]
                /\ (s.monitored.called /\ u.monitored.called) =>
                      s.monitored.response = u.monitored.response
                /\ (ReturnedUpstream(s) /\ ReturnedUpstream(u)) =>
                      s.resp.body = u.resp.body

\* C39: two calls through a handler with log, monitor and transformResponse have come
\* back, one from an upstream body of one field and one from a body of two; their
\* response events, monitor arguments and returned bodies are the same
C39_Witness ==
    \E i, j \in DOMAIN inv :
        /\ options.log /\ options.monitor /\ options.transformResponse
        /\ ReturnedUpstream(inv[i]) /\ ReturnedUpstream(inv[j])
        /\ inv[i].upstream = UpOk /\ inv[j].upstream = UpWide
        /\ inv[i].resp.body = inv[j].resp.body
        /\ inv[i].monitored.response = inv[j].monitored.response
        /\ \E k \in EventsOf(inv[i], "response"), l \in EventsOf(inv[j], "response") :
              inv[i].events[k] = inv[j].events[l]

====
